---- MODULE Spec2Model ----
(***************************************************************************)
(* A model of the GPX track-normalisation pipeline of gpx_fix.py:          *)
(* clean_points, add_synthetic_timestamps, resample_uniform,               *)
(* simplify_points and round_coords, of its drivers apply_profile,         *)
(* process_file and main, and of the duration re-timer of                  *)
(* gps_route_manager.py (create_and_import_duration).                      *)
(*                                                                         *)
(* Numbers.  Python floats and datetimes are modelled by integers:         *)
(*   - an instant (datetime) is a whole number of ticks, the resolution of *)
(*     datetime/timedelta; one second is TicksPerSec ticks;                *)
(*   - a duration given in seconds as a float is a rational num/den of     *)
(*     seconds; timedelta(seconds=x) rounds it to whole ticks, half to     *)
(*     even, as the datetime module does;                                  *)
(*   - latitude/longitude are steps of a planar grid, one step being GridM *)
(*     metres; haversine_m is the planar distance rounded down to a metre; *)
(*   - a speed given to the pipeline (max_speed, avg_speed) is a whole     *)
(*     number of tenths of a metre per second, a distance threshold        *)
(*     (min_dist, tolerance) a whole number of tenths of a metre, so that  *)
(*     13.9 m/s is 139 and 0.5 m is 5; measured distances are metres.      *)
(* An optional value (Python None or a value) is <<>> or <<v>>.            *)
(***************************************************************************)
EXTENDS Integers, Sequences, FiniteSets, TLC

VARIABLES pc, gpx, args, pts, err, t, i, res, argv, out, log, stat

vars == <<pc, gpx, args, pts, err, t, i, res, argv, out, log, stat>>

\* the state of the command-line driver and of the route manager: the options
\* as supplied, the files written, the steps run and the counters kept
aux == <<argv, out, log, stat>>
InitAux == argv = <<>> /\ out = <<>> /\ log = <<>> /\ stat = <<>>

\* ------------------------------------------------------------------ bounds
MaxLat == 1
MaxTime == 2
MaxLen == 3
TicksPerSec == 2
GridM == 10
ResMaxTime == 5
MaxIntervalNum == 5
SimplifyMaxLen == 4
RoundMaxLen == 2
MaxCoord == 6
MaxPrecision == 3
CoordDigits == 2

\* ------------------------------------------------------------ basic values
None == <<>>
Some(v) == <<v>>
IsNone(x) == x = <<>>
Val(x) == x[1]

NoError == "none"
NoTimestampedPoints == "ValueError: No valid timestamped points."
NoCoordinatePoints == "ValueError: No valid points with coordinates."
SortTypeError == "TypeError: '<' not supported between instances of 'NoneType' and 'datetime.datetime'"

\* A track point.  id is the point's position in the input document (0 for a
\* point object created by the pipeline); it stands for object identity.
Point(id, lat, lon, ele, time) ==
    [id |-> id, lat |-> lat, lon |-> lon, ele |-> ele, time |-> time]

HasCoords(p) == ~IsNone(p.lat) /\ ~IsNone(p.lon)

Abs(x) == IF x < 0 THEN -x ELSE x

\* floor of the square root of n >= 0
Isqrt(n) == CHOOSE r \in 0..n : r * r <= n /\ (r + 1) * (r + 1) > n

\* n/d rounded to the nearest integer, ties to the even one (d > 0)
RoundHalfEven(n, d) ==
    LET q == n \div d
        r == n % d
    IN  IF 2 * r < d THEN q
        ELSE IF 2 * r > d THEN q + 1
        ELSE IF q % 2 = 0 THEN q ELSE q + 1

\* timedelta(seconds = num/den), in ticks
timedelta(num, den) == RoundHalfEven(num * TicksPerSec, den)

\* haversine_m on the raw coordinates of two points, in metres
haversine_m(lat1, lon1, lat2, lon2) ==
    Isqrt(GridM * GridM * ((lat2 - lat1) * (lat2 - lat1) + (lon2 - lon1) * (lon2 - lon1)))

Dist(p, q) == haversine_m(Val(p.lat), Val(p.lon), Val(q.lat), Val(q.lon))

CoordPoints(s) == SelectSeq(s, HasCoords)

\* ------------------------------------------------- add_synthetic_timestamps
DefaultAvgSpeed == 250

\* a slip in the time delta: the distance multiplied by the speed
SynthDeltaMultiplies(dist, avg_speed_ms) ==
    IF avg_speed_ms > 0 THEN timedelta(dist * avg_speed_ms, 10) ELSE timedelta(1, 1)

\* the time delta of one step of add_synthetic_timestamps, in ticks
SynthDelta(dist, avg_speed_ms) ==
    IF avg_speed_ms > 0 THEN timedelta(10 * dist, avg_speed_ms) ELSE timedelta(1, 1)

RECURSIVE SynthTimes(_, _, _)
\* the points cs (all with coordinates), the first stamped with start
SynthTimes(cs, avg_speed_ms, start) ==
    IF Len(cs) = 0 THEN <<>>
    ELSE IF Len(cs) = 1 THEN <<[cs[1] EXCEPT !.time = Some(start)]>>
    ELSE LET n == Len(cs)
             before == SynthTimes(SubSeq(cs, 1, n - 1), avg_speed_ms, start)
             prev == before[n - 1]
             dist == Dist(prev, cs[n])
         IN  Append(before,
                    [cs[n] EXCEPT !.time =
                        Some(Val(prev.time) + SynthDelta(dist, avg_speed_ms))])

\* a slip: the test for an empty list of coordinate-bearing points left out
add_synthetic_timestampsNoCheck(g, avg_speed_ms, start_time, now) ==
    LET start == IF IsNone(start_time) THEN now ELSE Val(start_time)
    IN  [err |-> NoError, pts |-> SynthTimes(CoordPoints(g), avg_speed_ms, start)]

add_synthetic_timestamps(g, avg_speed_ms, start_time, now) ==
    LET start == IF IsNone(start_time) THEN now ELSE Val(start_time)
        cs == CoordPoints(g)
    IN  IF Len(cs) = 0
        THEN [err |-> NoCoordinatePoints, pts |-> <<>>]
        ELSE [err |-> NoError, pts |-> SynthTimes(cs, avg_speed_ms, start)]

\* the document after the points ps, objects of the document g, were given
\* their times in place
Restamped(g, ps) ==
    [k \in 1..Len(g) |->
        IF \E j \in 1..Len(ps) : ps[j].id = k
        THEN (CHOOSE q \in {ps[j] : j \in 1..Len(ps)} : q.id = k)
        ELSE g[k]]

\* ------------------------------------------------------------ clean_points
\* the points kept by the collection loop, in document order
Collected(g, add_timestamps) ==
    LET keep(p) == HasCoords(p) /\ (~IsNone(p.time) \/ add_timestamps)
    IN  SelectSeq(g, keep)

HasTimestamps(g) == \E k \in 1..Len(g) : HasCoords(g[k]) /\ ~IsNone(g[k].time)

RECURSIVE InsertByTimeBeforeTies(_, _)
\* a slip in the sort: p placed before the elements of equal time
InsertByTimeBeforeTies(s, p) ==
    IF Len(s) = 0 THEN <<p>>
    ELSE IF Val(s[Len(s)].time) < Val(p.time) THEN Append(s, p)
    ELSE Append(InsertByTimeBeforeTies(SubSeq(s, 1, Len(s) - 1), p), s[Len(s)])

RECURSIVE InsertByTime(_, _)
\* p placed after every element of the time-sorted s whose time is <= p's
InsertByTime(s, p) ==
    IF Len(s) = 0 THEN <<p>>
    ELSE IF Val(s[Len(s)].time) <= Val(p.time) THEN Append(s, p)
    ELSE Append(InsertByTime(SubSeq(s, 1, Len(s) - 1), p), s[Len(s)])

RECURSIVE SortByTime(_)
\* pts.sort(key=lambda p: p.time): stable, ascending
SortByTime(s) ==
    IF Len(s) = 0 THEN <<>>
    ELSE InsertByTime(SortByTime(SubSeq(s, 1, Len(s) - 1)), s[Len(s)])

RECURSIVE StrictMonotonic(_)
\* the strict-monotonic pass over time-sorted points
StrictMonotonic(s) ==
    IF Len(s) = 0 THEN <<>>
    ELSE LET before == StrictMonotonic(SubSeq(s, 1, Len(s) - 1))
             p == s[Len(s)]
         IN  IF Len(before) > 0 /\ Val(p.time) <= Val(before[Len(before)].time)
             THEN before
             ELSE Append(before, p)

\* a slip in the filtering pass: the speed test left out
KeepAfterNoSpeedTest(last, p, max_speed, min_dist) ==
    LET dt == Val(p.time) - Val(last.time)
        d == Dist(last, p)
    IN  ~(dt <= 0) /\ ~(10 * d < min_dist)

\* a slip in the filtering pass: the distance test left out
KeepAfterNoDistTest(last, p, max_speed, min_dist) ==
    LET dt == Val(p.time) - Val(last.time)
        d == Dist(last, p)
    IN  ~(dt <= 0) /\ ~(10 * d * TicksPerSec > max_speed * dt)

\* whether the filtering pass keeps p after the kept point last
KeepAfter(last, p, max_speed, min_dist) ==
    LET dt == Val(p.time) - Val(last.time)
        d == Dist(last, p)
    IN  /\ ~(dt <= 0)
        /\ ~(10 * d < min_dist)
        /\ ~(10 * d * TicksPerSec > max_speed * dt)

RECURSIVE FilterPassAgainstPrevious(_, _, _)
\* a slip in the filtering pass: each point measured against the point just
\* before it in the list, kept or not
FilterPassAgainstPrevious(s, max_speed, min_dist) ==
    IF Len(s) = 0 THEN <<>>
    ELSE LET before == FilterPassAgainstPrevious(SubSeq(s, 1, Len(s) - 1), max_speed, min_dist)
             p == s[Len(s)]
         IN  IF Len(before) = 0 THEN <<p>>
             ELSE IF KeepAfter(s[Len(s) - 1], p, max_speed, min_dist)
             THEN Append(before, p)
             ELSE before

RECURSIVE FilterPass(_, _, _)
\* de-duplication of close points and speed-spike filter
FilterPass(s, max_speed, min_dist) ==
    IF Len(s) = 0 THEN <<>>
    ELSE LET before == FilterPass(SubSeq(s, 1, Len(s) - 1), max_speed, min_dist)
             p == s[Len(s)]
         IN  IF Len(before) = 0 THEN <<p>>
             ELSE IF KeepAfter(before[Len(before)], p, max_speed, min_dist)
             THEN Append(before, p)
             ELSE before

\* the condition of the generation branch of clean_points
Generates(col, has_timestamps, add_timestamps) ==
    ~has_timestamps /\ add_timestamps /\ Len(col) > 0

\* a slip in the error branch: the test for an empty list left out
CleanFailsNoEmptyTest(col, has_timestamps, add_timestamps) ==
    ~has_timestamps /\ ~add_timestamps

\* the condition of the error branch of clean_points (evaluated when the
\* generation branch was not taken)
CleanFails(col, has_timestamps, add_timestamps) ==
    Len(col) = 0 \/ (~has_timestamps /\ ~add_timestamps)

\* a slip in the tail of clean_points: the sorted list returned, not out
CleanPassesReturnsPts(ps, max_speed, min_dist) == SortByTime(ps)

\* the tail of clean_points: sort, strict-monotonic pass, filtering pass
CleanPasses(ps, max_speed, min_dist) ==
    FilterPass(StrictMonotonic(SortByTime(ps)), max_speed, min_dist)

clean_points(g, max_speed, min_dist, add_timestamps, avg_speed, now) ==
    LET col == Collected(g, add_timestamps)
        has_timestamps == HasTimestamps(g)
        speed == IF IsNone(avg_speed) \/ avg_speed = Some(0)
                 THEN DefaultAvgSpeed ELSE Val(avg_speed)
        gen == Generates(col, has_timestamps, add_timestamps)
        ps == IF gen
              THEN add_synthetic_timestamps(g, speed, Some(now), now).pts
              ELSE col
    IN  IF ~gen /\ CleanFails(col, has_timestamps, add_timestamps)
        THEN [err |-> NoTimestampedPoints, pts |-> <<>>]
        ELSE IF \E k \in 1..Len(ps) : IsNone(ps[k].time)
        THEN [err |-> SortTypeError, pts |-> <<>>]
        ELSE [err |-> NoError, pts |-> CleanPasses(ps, max_speed, min_dist)]

\* ------------------------------------------------------------------ inputs
SeqsUpTo(S, n) == UNION {[1..k -> S] : k \in 0..n}

OptLat == {None} \cup {Some(x) : x \in 0..MaxLat}
OptTime == {None} \cup {Some(x) : x \in 0..MaxTime}

\* documents: points on one meridian, with or without coordinates and time
RawPoints == {Point(0, la, Some(0), None, tm) : la \in OptLat, tm \in OptTime}
Numbered(s) == [k \in 1..Len(s) |-> [s[k] EXCEPT !.id = k]]
Documents == {Numbered(s) : s \in SeqsUpTo(RawPoints, MaxLen)}

\* configurations of clean_points: thresholds (a max_speed between no motion
\* and one grid step per tick, and one of exactly one grid step per tick; a
\* min_dist of zero and of exactly one grid step), the generation flag with
\* the assumed speed, and the instant datetime.now() returns
CleanArgs ==
    {[max_speed |-> ms, min_dist |-> md, add_timestamps |-> g[1], avg_speed |-> g[2], now |-> 0] :
        ms \in {15 * GridM, 10 * GridM * TicksPerSec}, md \in {0, 10 * GridM},
        g \in {<<FALSE, None>>, <<TRUE, None>>, <<TRUE, Some(100)>>}}

\* ------------------------------------------------------- clean specification
InitClean ==
    /\ pc = "clean"
    /\ gpx \in Documents
    /\ args \in CleanArgs
    /\ pts = <<>>
    /\ err = NoError
    /\ t = 0 /\ i = 0 /\ res = <<>>
    /\ InitAux

CleanPoints ==
    /\ pc = "clean"
    /\ LET r == clean_points(gpx, args.max_speed, args.min_dist,
                             args.add_timestamps, args.avg_speed, args.now)
       IN  /\ pts' = r.pts
           /\ err' = r.err
           /\ pc' = IF r.err = NoError THEN "cleaned" ELSE "failed"
    /\ UNCHANGED <<gpx, args, t, i, res, aux>>

NextClean == CleanPoints

SpecClean == InitClean /\ [][NextClean]_vars

\* ---------------------------------------------------- claims on clean_points
Cleaned == pc = "cleaned"
AdjacentPairs(s) == 1..(Len(s) - 1)
Mixed(g) ==
    /\ \E k \in 1..Len(g) : HasCoords(g[k]) /\ ~IsNone(g[k].time)
    /\ \E k \in 1..Len(g) : HasCoords(g[k]) /\ IsNone(g[k].time)

\* C1: whenever clean_points returns a track, every adjacent pair of output
\* points has strictly increasing timestamps, read or generated.
C1_StrictlyIncreasing ==
    Cleaned => \A k \in AdjacentPairs(pts) :
                   /\ ~IsNone(pts[k].time) /\ ~IsNone(pts[k + 1].time)
                   /\ Val(pts[k + 1].time) > Val(pts[k].time)

\* C1 witness: a track of two or more points is returned for an input whose
\* timestamps were out of order and repeated.
C1_Witness ==
    /\ Cleaned /\ Len(pts) >= 2
    /\ \E j, k \in 1..Len(gpx) :
          /\ j < k /\ HasCoords(gpx[j]) /\ HasCoords(gpx[k])
          /\ ~IsNone(gpx[j].time) /\ ~IsNone(gpx[k].time)
          /\ Val(gpx[j].time) >= Val(gpx[k].time)

\* C2: for every adjacent pair of output points, distance / elapsed seconds
\* is at most max_speed.
C2_SpeedBound ==
    Cleaned => \A k \in AdjacentPairs(pts) :
                   LET dt == Val(pts[k + 1].time) - Val(pts[k].time)
                   IN  dt > 0 /\ 10 * Dist(pts[k], pts[k + 1]) * TicksPerSec <= args.max_speed * dt

\* C2 witness: a track of two or more points is returned for an input of
\* distinct timestamps, and an input point far enough from an output point
\* but too fast to reach was left out.
C2_Witness ==
    /\ Cleaned /\ Len(pts) >= 2
    /\ \A j, k \in 1..Len(gpx) : j # k => gpx[j].time # gpx[k].time
    /\ \E k \in 1..Len(gpx), j \in 1..Len(pts) :
          /\ HasCoords(gpx[k]) /\ ~IsNone(gpx[k].time)
          /\ \A m \in 1..Len(pts) : pts[m].id # k
          /\ Val(gpx[k].time) > Val(pts[j].time)
          /\ 10 * Dist(pts[j], gpx[k]) >= args.min_dist
          /\ 10 * Dist(pts[j], gpx[k]) * TicksPerSec >
                 args.max_speed * (Val(gpx[k].time) - Val(pts[j].time))

\* C3: for every adjacent pair of output points the distance is at least
\* min_dist, also when the timestamps were generated for an input holding
\* consecutive points of equal coordinates.
C3_MinSpacing ==
    Cleaned => \A k \in AdjacentPairs(pts) : 10 * Dist(pts[k], pts[k + 1]) >= args.min_dist

\* C3 witness: timestamps were generated for an input with two consecutive
\* points of equal coordinates, min_dist is positive and two or more points
\* are returned.
C3_Witness ==
    /\ Cleaned /\ Len(pts) >= 2 /\ args.min_dist > 0
    /\ ~HasTimestamps(gpx) /\ args.add_timestamps
    /\ \E k \in 1..(Len(gpx) - 1) :
          /\ HasCoords(gpx[k]) /\ HasCoords(gpx[k + 1])
          /\ gpx[k].lat = gpx[k + 1].lat /\ gpx[k].lon = gpx[k + 1].lon

\* C4 (as claimed): when some coordinate-bearing input point has a timestamp
\* and some has none, clean_points raises no error and returns a track built
\* only from the originally timestamped points, with generation disabled or
\* enabled.
C4_MixedDropsUntimed ==
    (pc # "clean" /\ Mixed(gpx)) =>
        /\ err = NoError
        /\ Len(pts) >= 1
        /\ \A k \in 1..Len(pts) : ~IsNone(gpx[pts[k].id].time)

\* C5: with no timestamped coordinate-bearing point and generation disabled,
\* and with no coordinate-bearing point at all whatever the flag, clean_points
\* fails with the no-timestamped-points error and returns no track.
C5_NoTimestampedPoints ==
    (/\ pc # "clean"
     /\ \/ ~HasTimestamps(gpx) /\ ~args.add_timestamps
        \/ Len(CoordPoints(gpx)) = 0) =>
        pc = "failed" /\ err = NoTimestampedPoints /\ pts = <<>>

\* C5 witness: the error is raised with generation enabled for a non-empty
\* document without any coordinate-bearing point.
C5_Witness ==
    /\ pc = "failed" /\ err = NoTimestampedPoints
    /\ args.add_timestamps /\ Len(gpx) >= 2 /\ Len(CoordPoints(gpx)) = 0

\* ------------------------------------------------- synthetic-timestamp spec
\* untimed documents on a two-column grid
SynthPoints == {Point(0, la, Some(lo), None, None) : la \in OptLat, lo \in 0..1}
SynthDocuments == {Numbered(s) : s \in SeqsUpTo(SynthPoints, MaxLen)}
\* assumed speeds the callers pass (all positive) and start instants
SynthArgs ==
    {[avg_speed_ms |-> v, start_time |-> st, now |-> 0] :
        v \in {30, 80, DefaultAvgSpeed}, st \in {None, Some(1)}}

InitSynth ==
    /\ pc = "stamp"
    /\ gpx \in SynthDocuments
    /\ args \in SynthArgs
    /\ pts = <<>>
    /\ err = NoError
    /\ t = 0 /\ i = 0 /\ res = <<>>
    /\ InitAux

AddSyntheticTimestamps ==
    /\ pc = "stamp"
    /\ LET r == add_synthetic_timestamps(gpx, args.avg_speed_ms, args.start_time, args.now)
       IN  /\ pts' = r.pts
           /\ err' = r.err
           /\ pc' = IF r.err = NoError THEN "stamped" ELSE "failed"
           /\ gpx' = Restamped(gpx, r.pts)
    /\ UNCHANGED <<args, t, i, res, aux>>

NextSynth == AddSyntheticTimestamps

SpecSynth == InitSynth /\ [][NextSynth]_vars

\* --------------------------------------------------------- resample_uniform
\* a float result x1 + (num/den) * (x2 - x1), rounded to the model's resolution
Lerp(x1, x2, num, den) == x1 + RoundHalfEven(num * (x2 - x1), den)

\* a slip in interp: the new point keeps p1's time
interpKeepsTime(p1, p2, t_target) ==
    LET t1 == Val(p1.time)
        t2 == Val(p2.time)
    IN  IF t2 = t1 THEN p1
        ELSE Point(0, Some(Lerp(Val(p1.lat), Val(p2.lat), t_target - t1, t2 - t1)),
                   Some(Lerp(Val(p1.lon), Val(p2.lon), t_target - t1, t2 - t1)),
                   None, p1.time)

\* a slip in interp: the elevation is never carried over
interpNoElevation(p1, p2, t_target) ==
    LET t1 == Val(p1.time)
        t2 == Val(p2.time)
    IN  IF t2 = t1 THEN p1
        ELSE Point(0, Some(Lerp(Val(p1.lat), Val(p2.lat), t_target - t1, t2 - t1)),
                   Some(Lerp(Val(p1.lon), Val(p2.lon), t_target - t1, t2 - t1)),
                   None, Some(t_target))

interp(p1, p2, t_target) ==
    LET t1 == Val(p1.time)
        t2 == Val(p2.time)
        num == t_target - t1
        den == t2 - t1
        ele == IF ~IsNone(p1.ele) /\ ~IsNone(p2.ele)
               THEN Some(Lerp(Val(p1.ele), Val(p2.ele), num, den))
               ELSE None
    IN  IF t2 = t1 THEN p1
        ELSE Point(0, Some(Lerp(Val(p1.lat), Val(p2.lat), num, den)),
                   Some(Lerp(Val(p1.lon), Val(p2.lon), num, den)),
                   ele, Some(t_target))

Min(a, b) == IF a < b THEN a ELSE b

RECURSIVE Cursor(_, _, _)
\* the inner while loop: the search cursor (a 0-based index) after advancing
Cursor(points, j, tt) ==
    IF j < Len(points) - 2 /\ Val(points[j + 2].time) <= tt
    THEN Cursor(points, j + 1, tt)
    ELSE j

\* a slip in the choice of the point: always the left endpoint
UseLeftEndpoint(points, j, tt) == points[j + 1]

\* the point one loop iteration appends, the cursor being at j
Use(points, j, tt) ==
    LET p1 == points[j + 1]
        p2 == points[Min(j + 1, Len(points) - 1) + 1]
    IN  IF tt <= Val(p1.time) THEN p1
        ELSE IF tt >= Val(p2.time) THEN p2
        ELSE interp(p1, p2, tt)

\* a slip in the loop test: the last instant excluded
LoopTestExclusive(tt, end) == tt < end

\* the test of the outer while loop
LoopTest(tt, end) == tt <= end

End(points) == Val(points[Len(points)].time)

\* the most points the model lets the loop emit (a step of zero never ends)
MaxOut == ResMaxTime + 2

ResampleStart ==
    /\ pc = "resample"
    /\ IF Len(gpx) < 2
       THEN /\ pts' = gpx
            /\ pc' = "resampled"
            /\ UNCHANGED <<t, i, res>>
       ELSE /\ t' = Val(gpx[1].time)
            /\ i' = 0
            /\ res' = <<>>
            /\ pc' = "loop"
            /\ UNCHANGED pts
    /\ UNCHANGED <<gpx, args, err, aux>>

ResampleStep ==
    /\ pc = "loop"
    /\ LoopTest(t, End(gpx))
    /\ Len(res) < MaxOut
    /\ LET j == Cursor(gpx, i, t)
       IN  /\ i' = j
           /\ res' = Append(res, Use(gpx, j, t))
           /\ t' = t + timedelta(args.interval[1], args.interval[2])
    /\ UNCHANGED <<pc, gpx, args, pts, err, aux>>

ResampleReturn ==
    /\ pc = "loop"
    /\ ~LoopTest(t, End(gpx))
    /\ pts' = res
    /\ pc' = "resampled"
    /\ UNCHANGED <<gpx, args, err, t, i, res, aux>>

\* strictly time-ordered tracks, as clean_points returns them
StrictlyTimed(s) ==
    \A k \in 1..(Len(s) - 1) : Val(s[k].time) < Val(s[k + 1].time)

ResampleShapes ==
    {<<Some(0), Some(0)>>, <<Some(12), Some(6)>>, <<Some(12), None>>}
ResamplePoints ==
    {Point(0, sh[1], Some(0), sh[2], Some(tm)) : sh \in ResampleShapes, tm \in 0..ResMaxTime}
ResampleTracks ==
    {Numbered(s) : s \in {x \in SeqsUpTo(ResamplePoints, MaxLen) : Len(x) >= 1 /\ StrictlyTimed(x)}}
\* intervals in seconds as <<num, den>>: whole and half ticks
Intervals ==
    {<<n, d>> : n \in 1..MaxIntervalNum, d \in {TicksPerSec, 2 * TicksPerSec}}

InitResample ==
    /\ pc = "resample"
    /\ gpx \in ResampleTracks
    /\ args \in {[interval |-> iv] : iv \in Intervals}
    /\ pts = <<>>
    /\ err = NoError
    /\ t = 0 /\ i = 0 /\ res = <<>>
    /\ InitAux

NextResample == ResampleStart \/ ResampleStep \/ ResampleReturn

SpecResample == InitResample /\ [][NextResample]_vars

\* ----------------------------------------- claims on add_synthetic_timestamps
\* C6: add_synthetic_timestamps stamps the first coordinate-bearing point with
\* the start instant and each later one with the previous point's time plus
\* distance / assumed speed (to the clock's resolution, half a tick); hence
\* the time from first to last point is the path length / assumed speed, to
\* half a tick per step.
C6_SyntheticTimes ==
    pc = "stamped" =>
        LET cs == CoordPoints(gpx)
            v == args.avg_speed_ms
            start == IF IsNone(args.start_time) THEN args.now ELSE Val(args.start_time)
            n == Len(pts)
            RECURSIVE PathLen(_)
            PathLen(k) == IF k <= 1 THEN 0 ELSE PathLen(k - 1) + Dist(cs[k - 1], cs[k])
        IN  /\ n = Len(cs) /\ n >= 1
            /\ \A k \in 1..n : pts[k] = [cs[k] EXCEPT !.time = pts[k].time]
            /\ pts[1].time = Some(start)
            /\ \A k \in 2..n :
                  2 * Abs((Val(pts[k].time) - Val(pts[k - 1].time)) * v
                          - 10 * Dist(cs[k - 1], cs[k]) * TicksPerSec) <= v
            /\ 2 * Abs((Val(pts[n].time) - start) * v - 10 * PathLen(n) * TicksPerSec)
                   <= (n - 1) * v

\* C6 witness: three points on a path with two legs of different length were
\* stamped, the second leg's duration not being a whole number of ticks.
C6_Witness ==
    /\ pc = "stamped" /\ Len(pts) = 3
    /\ Dist(pts[1], pts[2]) > 0
    /\ Dist(pts[2], pts[3]) > Dist(pts[1], pts[2])
    /\ (10 * Dist(pts[2], pts[3]) * TicksPerSec) % args.avg_speed_ms # 0
    /\ Val(pts[3].time) > Val(pts[2].time)

\* ------------------------------------------------- claims on resample_uniform
Resampled == pc = "resampled"
\* the interval in ticks is IntervalNum / IntervalDen
IntervalNum == args.interval[1] * TicksPerSec
IntervalDen == args.interval[2]
Span == End(gpx) - Val(gpx[1].time)
CeilDiv(n, d) == -((-n) \div d)

\* C7: for two or more strictly time-ordered points and an interval > 0, the
\* timestamps of the points resample_uniform returns are exactly start,
\* start+step, start+2*step, ..., step being the interval at the clock's
\* resolution (a whole number of ticks no more than half a tick from the
\* interval): the first is the input's first timestamp, the last is not after
\* the input's last timestamp and less than one interval before it.  Fewer
\* than two points are returned unchanged.
C7_StepGrid ==
    Resampled =>
        IF Len(gpx) < 2 THEN pts = gpx
        ELSE \E step \in 1..(2 * MaxIntervalNum) :
                /\ 2 * Abs(step * IntervalDen - IntervalNum) <= IntervalDen
                /\ Len(pts) >= 1
                /\ \A k \in 1..Len(pts) :
                      pts[k].time = Some(Val(gpx[1].time) + (k - 1) * step)
                /\ Val(pts[Len(pts)].time) <= End(gpx)
                /\ (End(gpx) - Val(pts[Len(pts)].time)) * IntervalDen < IntervalNum

\* C7 witness: a track was resampled at an interval that is not a whole number
\* of ticks into three or more points, interpolated ones among them, the last
\* before the input's last instant.
C7_Witness ==
    /\ Resampled /\ Len(gpx) >= 2 /\ Len(pts) >= 3
    /\ IntervalNum % IntervalDen # 0
    /\ Val(pts[Len(pts)].time) < End(gpx)
    /\ \E k \in 1..Len(pts) : pts[k].id = 0

\* C8 (as claimed): the number of output points is
\* ceil((end - start) / interval) + 1.
C8_CeilCount ==
    (Resampled /\ Len(gpx) >= 2) =>
        Len(pts) = CeilDiv(Span * IntervalDen, IntervalNum) + 1

\* C8 (amended): the number of output points is floor((end - start) / step) + 1,
\* step being the interval as a timedelta (rounded to the clock's resolution,
\* positive).
C8_FloorCount ==
    (Resampled /\ Len(gpx) >= 2) =>
        Len(pts) = (Span \div timedelta(args.interval[1], args.interval[2])) + 1

\* C8 witness: a span that is no multiple of the step was resampled, and the
\* output has one point fewer than ceil((end - start) / interval) + 1.
C8_Witness ==
    /\ Resampled /\ Len(gpx) >= 2 /\ Len(pts) >= 2
    /\ Span % timedelta(args.interval[1], args.interval[2]) # 0
    /\ Len(pts) = CeilDiv(Span * IntervalDen, IntervalNum)

\* ---------------------------------------------------------- simplify_points
\* Twice the area of the triangle a, b, p in grid steps: the deviation of p
\* from the line through a and b is Abs(Cross) / |ab|.
Cross(a, b, p) ==
    (Val(b.lat) - Val(a.lat)) * (Val(p.lon) - Val(a.lon))
        - (Val(b.lon) - Val(a.lon)) * (Val(p.lat) - Val(a.lat))

SqDist(a, b) ==
    (Val(b.lat) - Val(a.lat)) * (Val(b.lat) - Val(a.lat))
        + (Val(b.lon) - Val(a.lon)) * (Val(b.lon) - Val(a.lon))

\* the measure by which the intermediate points of a..b are ranked
Deviation(a, b, p) ==
    IF SqDist(a, b) = 0 THEN SqDist(a, p) ELSE Cross(a, b, p) * Cross(a, b, p)

\* whether p's deviation from a..b exceeds the tolerance (tenths of a metre)
Exceeds(a, b, p, tolerance_m) ==
    IF SqDist(a, b) = 0
    THEN 100 * GridM * GridM * SqDist(a, p) > tolerance_m * tolerance_m
    ELSE 100 * GridM * GridM * Cross(a, b, p) * Cross(a, b, p)
             > tolerance_m * tolerance_m * SqDist(a, b)

\* the first intermediate point of greatest deviation
Farthest(points) ==
    LET n == Len(points)
        dev(k) == Deviation(points[1], points[n], points[k])
    IN  CHOOSE m \in 2..(n - 1) :
            /\ \A k \in 2..(n - 1) : dev(k) <= dev(m)
            /\ \A k \in 2..(m - 1) : dev(k) < dev(m)

RECURSIVE simplify_polyline(_, _)
\* segment.simplify(tolerance): Douglas-Peucker
simplify_polyline(points, tolerance_m) ==
    LET n == Len(points)
    IN  IF n < 3 THEN points
        ELSE LET m == Farthest(points)
             IN  IF Exceeds(points[1], points[n], points[m], tolerance_m)
                 THEN simplify_polyline(SubSeq(points, 1, m), tolerance_m)
                          \o Tail(simplify_polyline(SubSeq(points, m, n), tolerance_m))
                 ELSE <<points[1], points[n]>>

\* a slip in the guard: a tolerance of zero let through to the simplifier
simplify_pointsStrictGuard(points, tolerance_m) ==
    IF tolerance_m < 0 \/ Len(points) < 3 THEN points
    ELSE simplify_polyline(points, tolerance_m)

simplify_points(points, tolerance_m) ==
    IF tolerance_m <= 0 \/ Len(points) < 3 THEN points
    ELSE simplify_polyline(points, tolerance_m)

\* timed tracks on a two-column grid
SimplifyPoints ==
    {Point(0, Some(la), Some(lo), None, Some(0)) : la \in 0..MaxLat, lo \in 0..1}
Timed(s) == [k \in 1..Len(s) |-> [s[k] EXCEPT !.time = Some(k)]]
SimplifyTracks ==
    {Timed(Numbered(s)) : s \in {x \in SeqsUpTo(SimplifyPoints, SimplifyMaxLen) : Len(x) >= 1}}
\* tolerances in tenths of a metre: negative, zero, between the deviations, above them
Tolerances == {-10, 0, 80, 20 * GridM}

InitSimplify ==
    /\ pc = "simplify"
    /\ gpx \in SimplifyTracks
    /\ args \in {[simplify |-> tl] : tl \in Tolerances}
    /\ pts = <<>>
    /\ err = NoError
    /\ t = 0 /\ i = 0 /\ res = <<>>
    /\ InitAux

Simplify ==
    /\ pc = "simplify"
    /\ pts' = simplify_points(gpx, args.simplify)
    /\ pc' = "simplified"
    /\ UNCHANGED <<gpx, args, err, t, i, res, aux>>

NextSimplify == Simplify

SpecSimplify == InitSimplify /\ [][NextSimplify]_vars

\* -------------------------------------------------------------- round_coords
\* In this part a coordinate x stands for x / 10^CoordDigits degrees.
RECURSIVE Pow10(_)
Pow10(n) == IF n <= 0 THEN 1 ELSE 10 * Pow10(n - 1)

\* round(x, ndigits): to ndigits decimals, ties to even
round(x, ndigits) ==
    IF ndigits >= CoordDigits THEN x
    ELSE RoundHalfEven(x, Pow10(CoordDigits - ndigits)) * Pow10(CoordDigits - ndigits)

\* a slip in building the point: the time not passed on
RoundedWithoutTime(p, precision, drop_ele) ==
    LET lat == IF ~IsNone(precision) THEN round(Val(p.lat), Val(precision)) ELSE Val(p.lat)
        lon == IF ~IsNone(precision) THEN round(Val(p.lon), Val(precision)) ELSE Val(p.lon)
        ele == IF drop_ele THEN None ELSE p.ele
    IN  Point(0, Some(lat), Some(lon), ele, None)

\* the point round_coords builds from p
Rounded(p, precision, drop_ele) ==
    LET lat == IF ~IsNone(precision) THEN round(Val(p.lat), Val(precision)) ELSE Val(p.lat)
        lon == IF ~IsNone(precision) THEN round(Val(p.lon), Val(precision)) ELSE Val(p.lon)
        ele == IF drop_ele THEN None ELSE p.ele
    IN  Point(0, Some(lat), Some(lon), ele, p.time)

\* a slip in building the point: latitude and longitude exchanged
round_coordsSwapsLatLon(points, precision, drop_ele) ==
    IF IsNone(precision) /\ ~drop_ele THEN points
    ELSE [k \in 1..Len(points) |->
            LET r == Rounded(points[k], precision, drop_ele)
            IN  Point(0, r.lon, r.lat, r.ele, r.time)]

round_coords(points, precision, drop_ele) ==
    IF IsNone(precision) /\ ~drop_ele THEN points
    ELSE [k \in 1..Len(points) |-> Rounded(points[k], precision, drop_ele)]

RoundShapes == {<<15, None>>, <<250, Some(7)>>}
RoundPoints ==
    {Point(0, Some(la), Some(sh[1]), sh[2], Some(0)) :
        la \in (-MaxCoord)..MaxCoord, sh \in RoundShapes}
RoundTracks ==
    {Timed(Numbered(s)) : s \in {x \in SeqsUpTo(RoundPoints, RoundMaxLen) : Len(x) >= 1}}
RoundArgs ==
    {[precision |-> pr, drop_ele |-> de] :
        pr \in {None} \cup {Some(n) : n \in 0..MaxPrecision}, de \in BOOLEAN}

InitRound ==
    /\ pc = "round"
    /\ gpx \in RoundTracks
    /\ args \in RoundArgs
    /\ pts = <<>>
    /\ err = NoError
    /\ t = 0 /\ i = 0 /\ res = <<>>
    /\ InitAux

RoundCoords ==
    /\ pc = "round"
    /\ pts' = round_coords(gpx, args.precision, args.drop_ele)
    /\ pc' = "rounded"
    /\ UNCHANGED <<gpx, args, err, t, i, res, aux>>

\* round_coords applied to its own output
RoundCoordsAgain ==
    /\ pc = "rounded"
    /\ res' = round_coords(pts, args.precision, args.drop_ele)
    /\ pc' = "rounded_twice"
    /\ UNCHANGED <<gpx, args, pts, err, t, i, aux>>

NextRound == RoundCoords \/ RoundCoordsAgain

SpecRound == InitRound /\ [][NextRound]_vars

\* --------------------------------------------------- claims on simplify_points
\* C9: simplify_points returns an order-preserving subsequence of its input
\* that holds the input's first and last point unchanged and has no more
\* points than the input; for a tolerance <= 0 or fewer than 3 points the
\* output is the input.
C9_SimplifySubsequence ==
    pc = "simplified" =>
        /\ Len(pts) >= 1 /\ Len(pts) <= Len(gpx)
        /\ \A k \in 1..Len(pts) : pts[k].id \in 1..Len(gpx) /\ pts[k] = gpx[pts[k].id]
        /\ \A k \in 1..(Len(pts) - 1) : pts[k].id < pts[k + 1].id
        /\ pts[1] = gpx[1]
        /\ pts[Len(pts)] = gpx[Len(gpx)]
        /\ (args.simplify <= 0 \/ Len(gpx) < 3) => pts = gpx

\* C9 witness: a track of four or more points was simplified at a positive
\* tolerance: some intermediate points were removed and some kept.
C9_Witness ==
    /\ pc = "simplified" /\ args.simplify > 0
    /\ Len(gpx) >= 4 /\ Len(pts) > 2 /\ Len(pts) < Len(gpx)

\* ------------------------------------------------------ claims on round_coords
\* C10: round_coords is idempotent for a fixed precision and drop-elevation
\* flag: applied to its own output it yields points of the same latitude,
\* longitude, elevation and time as the first application.
C10_RoundIdempotent ==
    pc = "rounded_twice" =>
        /\ Len(res) = Len(pts)
        /\ \A k \in 1..Len(res) :
              /\ res[k].lat = pts[k].lat /\ res[k].lon = pts[k].lon
              /\ res[k].ele = pts[k].ele /\ res[k].time = pts[k].time

\* C10 witness: round_coords ran twice with a precision that changed a
\* latitude and a longitude in the first run, and dropped an elevation.
C10_Witness ==
    /\ pc = "rounded_twice" /\ ~IsNone(args.precision) /\ args.drop_ele
    /\ \E k \in 1..Len(gpx) :
          /\ pts[k].lat # gpx[k].lat /\ pts[k].lon # gpx[k].lon
          /\ ~IsNone(gpx[k].ele)

\* ------------------------------------------------------------ apply_profile
\* x if x is not None else d
DefaultTo(x, d) == IF IsNone(x) THEN Some(d) ELSE x

ProfileNames == {"car", "bike", "walk"}

\* a slip in the table: the bike row a copy of the car row
ProfileDefaultsCopiesCar(profile) ==
    CASE profile = "car" -> [max_speed |-> 450, min_distance |-> 20, avg_speed |-> 139]
      [] profile = "bike" -> [max_speed |-> 450, min_distance |-> 20, avg_speed |-> 139]
      [] profile = "walk" -> [max_speed |-> 30, min_distance |-> 5, avg_speed |-> 14]

\* the values of the three branches, in tenths (45.0 m/s is 450, 0.5 m is 5)
ProfileDefaults(profile) ==
    CASE profile = "car" -> [max_speed |-> 450, min_distance |-> 20, avg_speed |-> 139]
      [] profile = "bike" -> [max_speed |-> 200, min_distance |-> 10, avg_speed |-> 56]
      [] profile = "walk" -> [max_speed |-> 30, min_distance |-> 5, avg_speed |-> 14]

\* the global defaults; interval in tenths of a second, simplify in tenths
\* of a metre
GlobalDefaults ==
    [interval |-> 15, simplify |-> 2, precision |-> 7, add_timestamps |-> TRUE, zip |-> TRUE]

\* the namespace after apply_profile; an unset option is None
apply_profile(a) ==
    LET g == [a EXCEPT !.interval = DefaultTo(@, GlobalDefaults.interval),
                       !.simplify = DefaultTo(@, GlobalDefaults.simplify),
                       !.precision = DefaultTo(@, GlobalDefaults.precision),
                       !.add_timestamps = DefaultTo(@, GlobalDefaults.add_timestamps),
                       !.zip = DefaultTo(@, GlobalDefaults.zip)]
    IN  IF a.profile \in ProfileNames
        THEN LET d == ProfileDefaults(a.profile)
             IN  [g EXCEPT !.max_speed = DefaultTo(@, d.max_speed),
                           !.min_distance = DefaultTo(@, d.min_distance),
                           !.avg_speed = Some(d.avg_speed),
                           !.drop_ele = DefaultTo(@, TRUE),
                           !.strip_extensions = DefaultTo(@, TRUE),
                           !.no_metadata = DefaultTo(@, TRUE)]
        ELSE g

\* the options a caller can supply: numbers unset or 0, flags unset, false
\* or true, the assumed speed unset or 10.0 m/s
OptZero == {None, Some(0)}
OptFlag == {None, Some(FALSE), Some(TRUE)}
ProfileArgs ==
    {[profile |-> pr, interval |-> n[1], max_speed |-> n[2], min_distance |-> n[3],
      simplify |-> n[4], precision |-> n[5], drop_ele |-> f[1],
      strip_extensions |-> f[2], no_metadata |-> f[3], add_timestamps |-> f[4],
      zip |-> f[5], avg_speed |-> av, no_resample |-> FALSE] :
        pr \in ProfileNames, n \in [1..5 -> OptZero], f \in [1..5 -> OptFlag],
        av \in {None, Some(100)}}

InitProfile ==
    /\ pc = "profile"
    /\ argv \in ProfileArgs
    /\ args = argv
    /\ gpx = <<>> /\ pts = <<>> /\ err = NoError
    /\ t = 0 /\ i = 0 /\ res = <<>>
    /\ out = <<>> /\ log = <<>> /\ stat = <<>>

ApplyProfile ==
    /\ pc = "profile"
    /\ args' = apply_profile(args)
    /\ pc' = "resolved"
    /\ UNCHANGED <<gpx, pts, err, t, i, res, aux>>

NextProfile == ApplyProfile

SpecProfile == InitProfile /\ [][NextProfile]_vars

\* --------------------------------------------------- claims on apply_profile
\* the fields of a profile configuration
ConfigFields ==
    {"max_speed", "min_distance", "avg_speed", "interval", "simplify", "precision",
     "drop_ele", "strip_extensions", "no_metadata", "add_timestamps"}
NoOverrides == \A f \in ConfigFields : IsNone(argv[f])

\* C11: with no explicit override apply_profile resolves max_speed,
\* min_distance and avg_speed to 45.0/2.0/13.9 for car, 20.0/1.0/5.6 for bike
\* and 3.0/0.5/1.4 for walk, and for every profile drop_ele, strip_extensions
\* and no_metadata to true, interval to 1.5, simplify to 0.2, precision to 7
\* and add_timestamps to true.
C11_ProfileTable ==
    (pc = "resolved" /\ NoOverrides) =>
        /\ <<args.max_speed, args.min_distance, args.avg_speed>> =
              CASE argv.profile = "car" -> <<Some(450), Some(20), Some(139)>>
                [] argv.profile = "bike" -> <<Some(200), Some(10), Some(56)>>
                [] argv.profile = "walk" -> <<Some(30), Some(5), Some(14)>>
        /\ args.drop_ele = Some(TRUE)
        /\ args.strip_extensions = Some(TRUE)
        /\ args.no_metadata = Some(TRUE)
        /\ args.interval = Some(15)
        /\ args.simplify = Some(2)
        /\ args.precision = Some(7)
        /\ args.add_timestamps = Some(TRUE)

\* C11 witness: the bike profile was resolved with nothing supplied.
C11_Witness ==
    /\ pc = "resolved" /\ NoOverrides /\ argv.profile = "bike"
    /\ args.max_speed = Some(200)

C18_NoCoordinatePoints ==
    (pc # "stamp" /\ Len(CoordPoints(gpx)) = 0) =>
        /\ pc = "failed" /\ err = NoCoordinatePoints /\ pts = <<>>
        /\ \A k \in 1..Len(gpx) : IsNone(gpx[k].time)

\* C18 witness: the call failed on a document of two or more points, none of
\* them with a latitude.
C18_Witness ==
    /\ pc = "failed" /\ err = NoCoordinatePoints
    /\ Len(gpx) >= 2 /\ \A k \in 1..Len(gpx) : IsNone(gpx[k].lat)

\* ------------------------------------------ claims on the filtering pass
\* the time-ordered list the filtering pass of clean_points iterates over
TimeOrdered ==
    LET col == Collected(gpx, args.add_timestamps)
        speed == IF IsNone(args.avg_speed) \/ args.avg_speed = Some(0)
                 THEN DefaultAvgSpeed ELSE Val(args.avg_speed)
        ps == IF Generates(col, HasTimestamps(gpx), args.add_timestamps)
              THEN add_synthetic_timestamps(gpx, speed, Some(args.now), args.now).pts
              ELSE col
    IN  StrictMonotonic(SortByTime(ps))

\* whether the k-th point of the time-ordered list c is in the output
KeptAt(c, k) == \E m \in 1..Len(pts) : pts[m] = c[k]
\* the most recently kept point before the k-th point of c
LastKeptBefore(c, k) ==
    LET j == CHOOSE x \in 1..(k - 1) :
                 KeptAt(c, x) /\ \A y \in (x + 1)..(k - 1) : ~KeptAt(c, y)
    IN  c[j]

\* C20: the filtering pass keeps the first time-ordered point and keeps each
\* later point exactly when, measured against the most recently kept point,
\* elapsed time > 0, distance >= min_dist and distance / elapsed <= max_speed
\* (both bounds inclusive); the output keeps the order, so a dropped point is
\* no reference and a point faster than max_speed from the last kept point is
\* absent.
C20_FilterAgainstLastKept ==
    Cleaned =>
        LET c == TimeOrdered
        IN  /\ Len(c) >= 1 /\ Len(pts) >= 1 /\ pts[1] = c[1]
            /\ \A m \in 1..Len(pts) : \E k \in 1..Len(c) : pts[m] = c[k]
            /\ \A m \in AdjacentPairs(pts) : Val(pts[m].time) < Val(pts[m + 1].time)
            /\ \A k \in 2..Len(c) :
                  LET last == LastKeptBefore(c, k)
                      dt == Val(c[k].time) - Val(last.time)
                      d == Dist(last, c[k])
                  IN  KeptAt(c, k) <=>
                          /\ dt > 0
                          /\ 10 * d >= args.min_dist
                          /\ 10 * d * TicksPerSec <= args.max_speed * dt

\* C20 witness: a point was dropped for its speed, and the next point was
\* kept although, measured against the dropped point, it would be too fast.
C20_Witness ==
    /\ Cleaned
    /\ LET c == TimeOrdered
       IN  /\ Len(c) >= 3
           /\ \E k \in 2..(Len(c) - 1) :
                 /\ ~KeptAt(c, k) /\ KeptAt(c, k + 1)
                 /\ 10 * Dist(LastKeptBefore(c, k), c[k]) >= args.min_dist
                 /\ 10 * Dist(c[k], c[k + 1]) * TicksPerSec >
                        args.max_speed * (Val(c[k + 1].time) - Val(c[k].time))

\* a point at exactly min_dist and exactly max_speed from the last kept point
\* is in the output
C20_AtThresholds ==
    /\ Cleaned /\ args.min_dist > 0
    /\ \E m \in AdjacentPairs(pts) :
          /\ 10 * Dist(pts[m], pts[m + 1]) = args.min_dist
          /\ 10 * Dist(pts[m], pts[m + 1]) * TicksPerSec =
                 args.max_speed * (Val(pts[m + 1].time) - Val(pts[m].time))

\* ------------------------------------------------------------- process_file
PfMaxLen == 3

ParseError == "GPXXMLSyntaxException"

RECURSIVE Concat(_)
\* the concatenation of a sequence of sequences
Concat(ss) == IF Len(ss) = 0 THEN <<>> ELSE Concat(SubSeq(ss, 1, Len(ss) - 1)) \o ss[Len(ss)]

\* the points of a document in the order the nested loops over tracks,
\* segments and points visit them; a document is a sequence of tracks, a track
\* a sequence of segments, a segment a sequence of points
Flatten(tracks) == Numbered(Concat([k \in 1..Len(tracks) |-> Concat(tracks[k])]))

RECURSIVE ResampleLoop(_, _, _, _, _)
\* the outer while loop of resample_uniform for a positive step
ResampleLoop(points, tt, j, acc, step) ==
    IF LoopTest(tt, End(points))
    THEN LET j2 == Cursor(points, j, tt)
         IN  ResampleLoop(points, tt + step, j2, Append(acc, Use(points, j2, tt)), step)
    ELSE acc

\* resample_uniform as a function; interval_s is <<num, den>> seconds
resample_uniform(points, interval_s) ==
    IF Len(points) < 2 THEN points
    ELSE ResampleLoop(points, Val(points[1].time), 0, <<>>,
                      timedelta(interval_s[1], interval_s[2]))

\* if not args.no_resample
ResampleEnabled(a) == ~a.no_resample

\* a slip in the guard of the simplify stage: any tolerance that is set
SimplifyEnabledWhenSet(a) == ~IsNone(a.simplify)

\* if args.simplify and args.simplify > 0
SimplifyEnabled(a) == ~IsNone(a.simplify) /\ Val(a.simplify) # 0 /\ Val(a.simplify) > 0

\* a slip in the first stage: the error of clean_points not passed on
StageCleanSwallowsError(tracks, a) ==
    [err |-> NoError,
     pts |-> clean_points(Flatten(tracks), Val(a.max_speed), Val(a.min_distance),
                          Val(a.add_timestamps), a.avg_speed, 0).pts]

StageClean(tracks, a) ==
    clean_points(Flatten(tracks), Val(a.max_speed), Val(a.min_distance),
                 Val(a.add_timestamps), a.avg_speed, 0)
StageResample(points, a) ==
    IF ResampleEnabled(a) THEN resample_uniform(points, <<Val(a.interval), 10>>) ELSE points
StageSimplify(points, a) ==
    IF SimplifyEnabled(a) THEN simplify_points(points, Val(a.simplify)) ELSE points
StageRound(points, a) == round_coords(points, a.precision, Val(a.drop_ele))

\* one track holding one segment holding the points
build_single_track(points) == <<<<points>>>>

\* process_file as a function of the file and the resolved options: the
\* exception raised, if any, and the file written, if any
process_file(file, a) ==
    IF ~file.wellformed THEN [err |-> ParseError, out |-> <<>>]
    ELSE LET c == StageClean(file.tracks, a)
         IN  IF c.err # NoError THEN [err |-> c.err, out |-> <<>>]
             ELSE [err |-> NoError,
                   out |-> <<build_single_track(
                               StageRound(StageSimplify(StageResample(c.pts, a), a), a))>>]

\* files: points on one meridian, timed or not, spread over two tracks, the
\* first of two segments; a document without tracks; a malformed file
PfPoints ==
    {Point(0, Some(la), Some(0), None, tm) : la \in 0..1, tm \in {None, Some(0), Some(4)}}
Split(s, a, b) ==
    <<<<SubSeq(s, 1, a), SubSeq(s, a + 1, b)>>, <<SubSeq(s, b + 1, Len(s))>>>>
Splits(s) == UNION {{Split(s, a, b) : b \in a..Len(s)} : a \in 0..Len(s)}
PfTracks == {<<>>} \cup UNION {Splits(s) : s \in SeqsUpTo(PfPoints, PfMaxLen)}
PfFiles ==
    {[wellformed |-> FALSE, tracks |-> <<>>]} \cup {[wellformed |-> TRUE, tracks |-> d] : d \in PfTracks}

\* the options: two profiles, resampling on or off, the tolerance unset, zero
\* or negative, timestamp generation on (unset) or off
PfArgv ==
    {[profile |-> pr, interval |-> None, max_speed |-> None, min_distance |-> None,
      simplify |-> sm, precision |-> None, drop_ele |-> None,
      strip_extensions |-> None, no_metadata |-> None, add_timestamps |-> at,
      zip |-> None, avg_speed |-> None, no_resample |-> nr] :
        pr \in {"car", "walk"}, sm \in {None, Some(0), Some(-10)},
        at \in {None, Some(FALSE)}, nr \in BOOLEAN}

InitProcess ==
    /\ pc = "pf_parse"
    /\ gpx \in PfFiles
    /\ argv \in PfArgv
    /\ args = apply_profile(argv)
    /\ pts = <<>> /\ err = NoError
    /\ t = 0 /\ i = 0 /\ res = <<>>
    /\ out = <<>> /\ log = <<>> /\ stat = <<>>

PfParse ==
    /\ pc = "pf_parse"
    /\ IF gpx.wellformed
       THEN pc' = "pf_clean" /\ UNCHANGED err
       ELSE pc' = "raised" /\ err' = ParseError
    /\ UNCHANGED <<gpx, args, pts, t, i, res, aux>>

PfClean ==
    /\ pc = "pf_clean"
    /\ LET c == StageClean(gpx.tracks, args)
       IN  IF c.err = NoError
           THEN pts' = c.pts /\ log' = Append(log, "clean") /\ pc' = "pf_resample"
                /\ UNCHANGED err
           ELSE err' = c.err /\ pc' = "raised" /\ UNCHANGED <<pts, log>>
    /\ UNCHANGED <<gpx, args, t, i, res, argv, out, stat>>

PfResample ==
    /\ pc = "pf_resample"
    /\ pts' = StageResample(pts, args)
    /\ log' = IF ResampleEnabled(args) THEN Append(log, "resample") ELSE log
    /\ pc' = "pf_simplify"
    /\ UNCHANGED <<gpx, args, err, t, i, res, argv, out, stat>>

PfSimplify ==
    /\ pc = "pf_simplify"
    /\ pts' = StageSimplify(pts, args)
    /\ log' = IF SimplifyEnabled(args) THEN Append(log, "simplify") ELSE log
    /\ pc' = "pf_round"
    /\ UNCHANGED <<gpx, args, err, t, i, res, argv, out, stat>>

PfRound ==
    /\ pc = "pf_round"
    /\ pts' = StageRound(pts, args)
    /\ log' = Append(log, "round")
    /\ pc' = "pf_write"
    /\ UNCHANGED <<gpx, args, err, t, i, res, argv, out, stat>>

PfWrite ==
    /\ pc = "pf_write"
    /\ out' = <<build_single_track(pts)>>
    /\ pc' = "written"
    /\ UNCHANGED <<gpx, args, pts, err, t, i, res, argv, log, stat>>

NextProcess == PfParse \/ PfClean \/ PfResample \/ PfSimplify \/ PfRound \/ PfWrite

SpecProcess == InitProcess /\ [][NextProcess]_vars

\* ---------------------------------------------------- claims on process_file
\* the stages the options call for, in the order of the pipeline
OptionalStage(on, name) == IF on THEN <<name>> ELSE <<>>
ExpectedStages ==
    <<"clean">> \o OptionalStage(~args.no_resample, "resample")
        \o OptionalStage(~IsNone(args.simplify) /\ Val(args.simplify) > 0, "simplify")
        \o <<"round">>
IsPrefix(a, b) == Len(a) <= Len(b) /\ a = SubSeq(b, 1, Len(a))

\* C19: process_file runs clean, then resample unless resampling is disabled,
\* then simplify unless the tolerance is unset or <= 0, then round, each once
\* and in this order, and the document it writes holds exactly one track of
\* exactly one segment, whose points are what the stages leave of the points
\* of all input tracks and segments.
C19_StageOrder ==
    /\ IsPrefix(log, ExpectedStages)
    /\ pc \in {"pf_write", "written"} => log = ExpectedStages
    /\ pc # "written" => out = <<>>
    /\ pc = "written" =>
          /\ Len(out) = 1 /\ Len(out[1]) = 1 /\ Len(out[1][1]) = 1
          /\ out[1][1][1] = pts
          /\ LET all == Flatten(gpx.tracks)
                 c == clean_points(all, Val(args.max_speed), Val(args.min_distance),
                                   Val(args.add_timestamps), args.avg_speed, 0).pts
                 r == IF args.no_resample THEN c
                      ELSE resample_uniform(c, <<Val(args.interval), 10>>)
                 q == IF IsNone(args.simplify) \/ Val(args.simplify) <= 0 THEN r
                      ELSE simplify_points(r, Val(args.simplify))
             IN  pts = round_coords(q, args.precision, Val(args.drop_ele))

\* C19 witness: a file was written for a document whose three containers all
\* hold a point, all three of which survive, with resampling disabled and the
\* simplify stage run.
C19_Witness ==
    /\ pc = "written" /\ log = <<"clean", "simplify", "round">>
    /\ Len(gpx.tracks) = 2
    /\ Len(gpx.tracks[1][1]) = 1 /\ Len(gpx.tracks[1][2]) = 1 /\ Len(gpx.tracks[2][1]) = 1
    /\ Len(out[1][1][1]) = 3

\* --------------------------------------------------------------------- main
MainMaxFiles == 3

\* a slip in the handlers: every failure reported as skipped
ClassifySkipsEveryFailure(e) ==
    IF e = NoError THEN "processed" ELSE "skipped"

\* the outcome the batch loop reports for a file: the body of try completed,
\* a ValueError whose text holds "No valid timestamped points", or any other
\* exception
Classify(e) ==
    IF e = NoError THEN "processed"
    ELSE IF e \in {NoTimestampedPoints, NoCoordinatePoints} /\ e = NoTimestampedPoints
    THEN "skipped"
    ELSE "error"

\* a slip in the handlers: the error counter left alone
TallyForgetsErrors(counts, outcome) ==
    CASE outcome = "processed" -> [counts EXCEPT !.success_count = @ + 1]
      [] outcome = "skipped" -> [counts EXCEPT !.skip_count = @ + 1]
      [] outcome = "error" -> counts

\* success_count += 1, skip_count += 1 or error_count += 1
Tally(counts, outcome) ==
    CASE outcome = "processed" -> [counts EXCEPT !.success_count = @ + 1]
      [] outcome = "skipped" -> [counts EXCEPT !.skip_count = @ + 1]
      [] outcome = "error" -> [counts EXCEPT !.error_count = @ + 1]

RECURSIVE InsertByName(_, _)
InsertByName(s, f) ==
    IF Len(s) = 0 THEN <<f>>
    ELSE IF s[Len(s)].name <= f.name THEN Append(s, f)
    ELSE Append(InsertByName(SubSeq(s, 1, Len(s) - 1), f), s[Len(s)])

RECURSIVE SortByName(_)
\* sorted(gpx_files); a file name is a number, ordered as the paths are
SortByName(s) ==
    IF Len(s) = 0 THEN <<>>
    ELSE InsertByName(SortByName(SubSeq(s, 1, Len(s) - 1)), s[Len(s)])

\* file contents: malformed, without tracks, a timed track, an untimed track,
\* a track of a timed and an untimed point
MainContents ==
    LET P(la, tm) == Point(0, Some(la), Some(0), None, tm)
    IN  {[wellformed |-> FALSE, tracks |-> <<>>],
         [wellformed |-> TRUE, tracks |-> <<>>],
         [wellformed |-> TRUE, tracks |-> <<<<<<P(0, Some(0)), P(1, Some(4))>>>>>>],
         [wellformed |-> TRUE, tracks |-> <<<<<<P(0, None), P(1, None)>>>>>>],
         [wellformed |-> TRUE, tracks |-> <<<<<<P(0, Some(0)), P(1, None)>>>>>>]}
Named(n, c) == [name |-> n, wellformed |-> c.wellformed, tracks |-> c.tracks]
\* what glob returns: files of distinct names, in any order
Globs ==
    {g \in SeqsUpTo({Named(n, c) : n \in 1..MainMaxFiles, c \in MainContents}, MainMaxFiles) :
        \A j, k \in 1..Len(g) : j # k => g[j].name # g[k].name}

\* the options: the input path given or not, timestamp generation on or off
MainArgv ==
    {[profile |-> "car", interval |-> None, max_speed |-> None, min_distance |-> None,
      simplify |-> None, precision |-> None, drop_ele |-> None,
      strip_extensions |-> None, no_metadata |-> None, add_timestamps |-> at,
      zip |-> None, avg_speed |-> None, no_resample |-> FALSE, input |-> inp] :
        at \in {None, Some(FALSE)}, inp \in {None, Some("input.gpx")}}

NoCounts == [success_count |-> 0, skip_count |-> 0, error_count |-> 0]

\* the state when main has parsed the command line; gpx holds the files of
\* broken/ (batch mode) or the input file, if it exists (single-file mode)
InitMain ==
    /\ pc = "main"
    /\ argv \in MainArgv
    /\ args = argv
    /\ gpx \in IF IsNone(argv.input) THEN Globs ELSE {g \in Globs : Len(g) <= 1}
    /\ pts = <<>> /\ err = NoError
    /\ t = 0 /\ i = 0 /\ res = <<>>
    /\ out = <<>> /\ log = <<>> /\ stat = NoCounts

\* apply_profile and the tests made before any file is processed; in batch
\* mode pts becomes sorted(gpx_files), the list the loop iterates over
MainStart ==
    /\ pc = "main"
    /\ args' = apply_profile(args)
    /\ IF IsNone(args.input)
       THEN IF Len(gpx) = 0
            THEN pc' = "exited" /\ res' = Some(0) /\ UNCHANGED pts
            ELSE pc' = "batch" /\ pts' = SortByName(gpx) /\ UNCHANGED res
       ELSE IF Len(gpx) = 0
            THEN pc' = "exited" /\ res' = Some(2) /\ UNCHANGED pts
            ELSE pc' = "single" /\ UNCHANGED <<pts, res>>
    /\ UNCHANGED <<gpx, err, t, i, aux>>

\* one iteration of the batch loop on the i+1-th file in sorted order
BatchFile ==
    /\ pc = "batch"
    /\ i < Len(pts)
    /\ LET f == pts[i + 1]
           r == process_file(f, args)
           outcome == Classify(r.err)
       IN  /\ stat' = Tally(stat, outcome)
           /\ log' = Append(log, [name |-> f.name, outcome |-> outcome, err |-> r.err])
           /\ out' = Append(out, [name |-> f.name, written |-> r.out])
    /\ i' = i + 1
    /\ UNCHANGED <<pc, gpx, args, pts, err, t, res, argv>>

\* the end of the loop: the tally is printed and main returns
BatchEnd ==
    /\ pc = "batch"
    /\ i = Len(pts)
    /\ pc' = "done"
    /\ res' = Some(0)
    /\ UNCHANGED <<gpx, args, pts, err, t, i, aux>>

\* single-file mode
SingleFile ==
    /\ pc = "single"
    /\ LET r == process_file(gpx[1], args)
       IN  /\ err' = r.err
           /\ out' = <<[name |-> gpx[1].name, written |-> r.out]>>
           /\ IF r.err = NoError
              THEN pc' = "done" /\ res' = Some(0)
              ELSE pc' = "exited" /\ res' = Some(1)
    /\ UNCHANGED <<gpx, args, pts, t, i, argv, log, stat>>

NextMain == MainStart \/ BatchFile \/ BatchEnd \/ SingleFile

SpecMain == InitMain /\ [][NextMain]_vars

\* ------------------------------------------------------------ claims on main
BatchMode == IsNone(argv.input) /\ pc \in {"batch", "done"}
Outcomes == {"processed", "skipped", "error"}

\* C13: in batch mode no failure on a file ends the run: the files of broken/
\* are attempted one by one in sorted order, each attempted file has exactly
\* one of the outcomes processed, skipped, error, and when the loop is over
\* every file was attempted and success_count + skip_count + error_count is
\* the number of files.
C13_BatchNeverAborts ==
    BatchMode =>
        /\ Len(log) = i /\ i <= Len(gpx)
        /\ \A k \in 1..Len(log) : log[k].outcome \in Outcomes
        /\ \A k \in 1..(Len(log) - 1) : log[k].name < log[k + 1].name
        /\ \A k \in 1..Len(log) : \A f \in {gpx[j] : j \in 1..Len(gpx)} :
              f.name < log[k].name => \E m \in 1..(k - 1) : log[m].name = f.name
        /\ stat.success_count + stat.skip_count + stat.error_count = i
        /\ stat.success_count = Cardinality({k \in 1..Len(log) : log[k].outcome = "processed"})
        /\ stat.skip_count = Cardinality({k \in 1..Len(log) : log[k].outcome = "skipped"})
        /\ pc = "done" =>
              /\ i = Len(gpx)
              /\ {log[k].name : k \in 1..Len(log)} = {gpx[k].name : k \in 1..Len(gpx)}

\* C13 witness: the loop ended on three files returned out of order by glob,
\* the first in sorted order having failed and a later one processed.
C13_Witness ==
    /\ pc = "done" /\ Len(gpx) = 3
    /\ gpx[1].name > gpx[2].name
    /\ log[1].outcome = "error" /\ log[3].outcome = "processed"
    /\ stat.skip_count = 1

\* the file of the k-th iteration
FileOf(k) == CHOOSE f \in {gpx[j] : j \in 1..Len(gpx)} : f.name = log[k].name

\* C14: in batch mode a file is reported as skipped exactly when its
\* processing failed with the no-timestamped-points error, and every other
\* failure is reported as error; in single-file mode every processing failure
\* makes the program exit with a non-zero status.
C14_SkipAndExitStatus ==
    /\ BatchMode =>
          \A k \in 1..Len(log) :
              LET f == FileOf(k)
                  all == Flatten(f.tracks)
                  no_timestamped ==
                      /\ f.wellformed
                      /\ \/ Len(CoordPoints(all)) = 0
                         \/ ~HasTimestamps(all) /\ ~Val(args.add_timestamps)
                  written == out[k].written # <<>>
              IN  /\ log[k].outcome = "skipped" <=> no_timestamped
                  /\ log[k].outcome = "error" <=> (~written /\ ~no_timestamped)
                  /\ log[k].outcome = "processed" <=> written
    /\ (~IsNone(argv.input) /\ pc \in {"done", "exited"} /\ Len(gpx) = 1) =>
          /\ out[1].written = <<>> <=> (~IsNone(res) /\ Val(res) # 0)
          /\ err # NoError <=> out[1].written = <<>>

\* C14 witness (batch): one run reported a skipped file, a malformed file as
\* error and a file failing in the sort as error.
C14_Witness ==
    /\ pc = "done" /\ Len(log) = 3
    /\ \E k \in 1..3 : log[k].outcome = "skipped" /\ log[k].err = NoTimestampedPoints
    /\ \E k \in 1..3 : log[k].outcome = "error" /\ log[k].err = ParseError
    /\ \E k \in 1..3 : log[k].outcome = "error" /\ log[k].err = SortTypeError

\* single-file mode ended with status 1 on the no-timestamped-points error
C14_SingleFileExit ==
    /\ pc = "exited" /\ ~IsNone(argv.input) /\ Len(gpx) = 1
    /\ err = NoTimestampedPoints /\ res = Some(1)

\* ------------------------------------- the duration re-timer (route manager)
RtMaxLen == 2

\* a float is a rational <<num, den>>, den > 0
RatMax(a, b) == IF a[1] * b[2] >= b[1] * a[2] THEN a ELSE b

\* min_speed_ms = 6.0 * 1000 / 3600
MinSpeed == <<6 * 1000, 3600>>

RECURSIVE PathLength(_, _)
\* the distance along a segment from its first to its k-th point, in metres
PathLength(seg, k) ==
    IF k <= 1 THEN 0 ELSE PathLength(seg, k - 1) + Dist(seg[k - 1], seg[k])

RECURSIVE SumLengths(_)
\* the loops over segments: those of fewer than 2 points are passed over
SumLengths(segs) ==
    IF Len(segs) = 0 THEN 0
    ELSE SumLengths(SubSeq(segs, 1, Len(segs) - 1))
             + (IF Len(segs[Len(segs)]) < 2 THEN 0
                ELSE PathLength(segs[Len(segs)], Len(segs[Len(segs)])))

\* total_distance of a document
RouteDistance(tracks) == SumLengths(Concat(tracks))

\* calculate_route_distance: None when parsing raises
calculate_route_distance(file) ==
    IF ~file.wellformed THEN None ELSE Some(RouteDistance(file.tracks))

\* target_speed_ms of create_and_import_duration
TargetSpeed(route_distance, duration_minutes) ==
    RatMax(<<route_distance, duration_minutes * 60>>, MinSpeed)

\* start_time + timedelta(seconds = (current / total) * (total / v)), total
\* being positive: the product is current / v
PointTime(current, total, v, start) ==
    start + timedelta(current * v[2], v[1])

\* current_distance when the loops reach segment b of track a
Offset(tracks, a, b) ==
    RouteDistance(SubSeq(tracks, 1, a - 1)) + SumLengths(SubSeq(tracks[a], 1, b - 1))

\* the points of a segment of 2 or more points with their new times
RetimedSegment(seg, offset, total, v, start) ==
    [k \in 1..Len(seg) |->
        [seg[k] EXCEPT !.time =
            Some(IF k = 1 THEN start
                 ELSE PointTime(offset + PathLength(seg, k), total, v, start))]]

\* whether the division current_distance / total_distance raises
DividesByZero(tracks) ==
    /\ RouteDistance(tracks) = 0
    /\ \E a \in 1..Len(tracks) : \E b \in 1..Len(tracks[a]) : Len(tracks[a][b]) >= 2

\* regenerate_timestamps_with_speed: the content of the file afterwards; an
\* exception is printed and leaves the file as it was
regenerate_timestamps_with_speed(tracks, v, now) ==
    IF DividesByZero(tracks) THEN tracks
    ELSE [a \in 1..Len(tracks) |->
            [b \in 1..Len(tracks[a]) |->
                IF Len(tracks[a][b]) < 2 THEN tracks[a][b]
                ELSE RetimedSegment(tracks[a][b], Offset(tracks, a, b),
                                    RouteDistance(tracks), v, now)]]

\* custom_fix_file_with_speed: whether it returns True, and the file written
custom_fix_file_with_speed(file, v, now) ==
    IF ~file.wellformed \/ DividesByZero(file.tracks)
    THEN [ok |-> FALSE, out |-> <<>>]
    ELSE LET tracks == file.tracks
             zero_ele(seg) ==
                 [k \in 1..Len(seg) |->
                     [seg[k] EXCEPT !.ele = IF IsNone(@) THEN Some(0) ELSE @]]
             long(seg) == Len(seg) >= 2
             new_track(a) ==
                 SelectSeq([b \in 1..Len(tracks[a]) |->
                               IF Len(tracks[a][b]) < 2 THEN <<>>
                               ELSE zero_ele(RetimedSegment(tracks[a][b], Offset(tracks, a, b),
                                                            RouteDistance(tracks), v, now))],
                           long)
         IN  [ok |-> TRUE, out |-> <<[a \in 1..Len(tracks) |-> new_track(a)]>>]

\* the command line fix_file_with_speed builds
FixCommand(profile) ==
    [profile |-> profile, interval |-> Some(15), max_speed |-> None, min_distance |-> None,
     simplify |-> Some(2), precision |-> Some(7), drop_ele |-> None,
     strip_extensions |-> None, no_metadata |-> None, add_timestamps |-> Some(TRUE),
     zip |-> None, avg_speed |-> None, no_resample |-> FALSE, input |-> Some("temp")]

\* gpx_fix.py run on one input file: its exit status and the file it wrote
gpx_fix_main(file, a) ==
    LET r == process_file(file, apply_profile(a))
    IN  [returncode |-> IF r.err = NoError THEN 0 ELSE 1, out |-> r.out]

\* routes: points at the corners of a rectangle of 100 m by 300 m, drawn
\* without times or recorded at one instant, in one segment, or in two
\* segments (of up to two points) of one track; also a malformed file
RtPositions == {<<0, 0>>, <<10, 0>>, <<10, 30>>, <<0, 30>>}
RtPoints == {Point(0, Some(c[1]), Some(c[2]), None, None) : c \in RtPositions}
RtRecorded == {Point(0, Some(c[1]), Some(c[2]), None, Some(0)) : c \in RtPositions}
RtSegments == SeqsUpTo(RtPoints, RtMaxLen)
RtFiles ==
    {[wellformed |-> FALSE, tracks |-> <<>>]}
        \cup {[wellformed |-> TRUE, tracks |-> <<<<sg>>>>] : sg \in RtSegments}
        \cup {[wellformed |-> TRUE, tracks |-> <<<<s1, s2>>>>] :
                 s1 \in SeqsUpTo(RtPoints \cup RtRecorded, 2), s2 \in SeqsUpTo(RtPoints, 2)}
\* requested durations in minutes, the profile selected, and the instant
\* datetime.now() returns in the re-timer, one tick after the instant it
\* returned in the gpx_fix.py run before
RtArgs ==
    {[duration_minutes |-> d, profile |-> pr, now |-> 1] : d \in {1, 4}, pr \in {"car", "bike"}}

NoRoute == [route_distance |-> None, target_speed_ms |-> None]

InitRetime ==
    /\ pc = "rt_distance"
    /\ gpx \in RtFiles
    /\ args \in RtArgs
    /\ pts = <<>> /\ err = NoError
    /\ t = 0 /\ i = 0 /\ res = <<>>
    /\ argv = <<>> /\ out = <<>> /\ log = <<>> /\ stat = NoRoute

\* create_and_import_duration up to the call of fix_file_with_speed
CalculateTargetSpeed ==
    /\ pc = "rt_distance"
    /\ LET route_distance == calculate_route_distance(gpx)
       IN  IF IsNone(route_distance)
           THEN /\ err' = "Could not calculate route distance"
                /\ pc' = "rt_error"
                /\ UNCHANGED stat
           ELSE /\ stat' = [route_distance |-> route_distance,
                            target_speed_ms |->
                                Some(TargetSpeed(Val(route_distance), args.duration_minutes))]
                /\ pc' = "rt_fix"
                /\ UNCHANGED err
    /\ UNCHANGED <<gpx, args, pts, t, i, res, argv, out, log>>

\* fix_file_with_speed: gpx_fix.py is run on a copy of the input; on status 0
\* its output becomes the output file
RunGpxFix ==
    /\ pc = "rt_fix"
    /\ argv' = FixCommand(args.profile)
    /\ LET r == gpx_fix_main(gpx, FixCommand(args.profile))
       IN  IF r.returncode = 0
           THEN out' = r.out /\ pc' = "rt_regenerate" /\ log' = Append(log, "gpx_fix")
           ELSE out' = <<>> /\ pc' = "rt_custom" /\ log' = Append(log, "gpx_fix failed")
    /\ UNCHANGED <<gpx, args, pts, err, t, i, res, stat>>

\* the output file is re-timed in place; fix_file_with_speed returns True
RegenerateTimestamps ==
    /\ pc = "rt_regenerate"
    /\ out' = <<regenerate_timestamps_with_speed(out[1], Val(stat.target_speed_ms), args.now)>>
    /\ log' = Append(log, IF DividesByZero(out[1]) THEN "regenerate failed" ELSE "regenerate")
    /\ res' = Some(TRUE)
    /\ pc' = "rt_done"
    /\ UNCHANGED <<gpx, args, pts, err, t, i, argv, stat>>

\* the fallback when gpx_fix.py failed
CustomFix ==
    /\ pc = "rt_custom"
    /\ LET c == custom_fix_file_with_speed(gpx, Val(stat.target_speed_ms), args.now)
       IN  /\ out' = c.out
           /\ res' = Some(c.ok)
           /\ log' = Append(log, "custom")
           /\ IF c.ok
              THEN pc' = "rt_done" /\ UNCHANGED err
              ELSE pc' = "rt_error" /\ err' = "Failed to create duration-based file"
    /\ UNCHANGED <<gpx, args, pts, t, i, argv, stat>>

NextRetime == CalculateTargetSpeed \/ RunGpxFix \/ RegenerateTimestamps \/ CustomFix

SpecRetime == InitRetime /\ [][NextRetime]_vars

\* ------------------------------------------- claims on the duration re-timer
\* the track written, its points, its path length and its elapsed time
Retimed == pc = "rt_done"
WrittenPoints == Concat(Concat(out[1]))
RealizedLength == RouteDistance(out[1])
Elapsed == Val(WrittenPoints[Len(WrittenPoints)].time) - Val(WrittenPoints[1].time)
Requested == args.duration_minutes * 60 * TicksPerSec
\* whether the requested duration implies a speed below the floor
BelowFloor ==
    Val(stat.route_distance) * MinSpeed[2] < MinSpeed[1] * args.duration_minutes * 60

\* C15 (as claimed): the target speed is max(route length / (minutes * 60),
\* 6 km/h); when the requested duration implies a speed below the floor, the
\* written track's path length divided by its elapsed time is the floor (to
\* the clock's resolution) and its elapsed time is strictly less than the
\* requested duration.
C15_FloorSpeedShorterDuration ==
    /\ ~IsNone(stat.target_speed_ms) =>
          Val(stat.target_speed_ms) =
              IF BelowFloor THEN MinSpeed
              ELSE <<Val(stat.route_distance), args.duration_minutes * 60>>
    /\ (Retimed /\ BelowFloor /\ Len(WrittenPoints) >= 2) =>
          /\ 2 * Abs(Elapsed * MinSpeed[1] - RealizedLength * TicksPerSec * MinSpeed[2])
                 <= MinSpeed[1]
          /\ Elapsed < Requested

\* C16 (as claimed): when the requested duration implies a speed at or above
\* the floor, the elapsed time of the written track is the requested duration
\* (to one tick), whatever cleaning, resampling and simplification did to the
\* route.
C16_ElapsedIsRequested ==
    (Retimed /\ ~BelowFloor /\ Len(WrittenPoints) >= 2) =>
        Abs(Elapsed - Requested) <= 1

\* C17 (as claimed): for a route of fewer than 2 points the re-timer fails
\* with an error and writes no track.
C17_EmptyGeometry ==
    (pc \in {"rt_done", "rt_error"} /\ gpx.wellformed
        /\ Len(Concat(Concat(gpx.tracks))) < 2) =>
        pc = "rt_error" /\ err # NoError /\ out = <<>>

\* ------------------------------------------- more claims on resample_uniform
Between(x, a, b) == (a <= x /\ x <= b) \/ (b <= x /\ x <= a)
\* x is x1 + (num/den) * (x2 - x1) to half a unit of the model's resolution
InterpolatedAt(x, x1, x2, num, den) ==
    /\ 2 * Abs((x - x1) * den - num * (x2 - x1)) <= den
    /\ Between(x, x1, x2)

\* C21: in every iteration of resample_uniform's loop, at step time t, the
\* search cursor does not move backwards and selects consecutive input points
\* p1, p2 with p1.time <= t <= p2.time; when t is an endpoint's time that input
\* point itself is appended, otherwise the appended point has time t and its
\* latitude, longitude and (only when both endpoints have one, else absent)
\* elevation linearly interpolated at (t - p1.time)/(p2.time - p1.time), each
\* lying between the two endpoints' values.
C21_BracketAndInterpolate ==
    [][(pc = "loop" /\ Len(res') = Len(res) + 1) =>
        LET p1 == gpx[i' + 1]
            p2 == gpx[i' + 2]
            use == res'[Len(res')]
            t1 == Val(p1.time)
            t2 == Val(p2.time)
        IN  /\ i' >= i
            /\ t1 <= t /\ t <= t2
            /\ (t = t1 => use = p1)
            /\ (t = t2 => use = p2)
            /\ (t1 < t /\ t < t2) =>
                 /\ use.time = Some(t)
                 /\ InterpolatedAt(Val(use.lat), Val(p1.lat), Val(p2.lat), t - t1, t2 - t1)
                 /\ InterpolatedAt(Val(use.lon), Val(p1.lon), Val(p2.lon), t - t1, t2 - t1)
                 /\ IF IsNone(p1.ele) \/ IsNone(p2.ele)
                    THEN IsNone(use.ele)
                    ELSE /\ ~IsNone(use.ele)
                         /\ InterpolatedAt(Val(use.ele), Val(p1.ele), Val(p2.ele),
                                           t - t1, t2 - t1)]_vars

\* C21 witness: the loop has advanced its cursor past the first pair and has
\* appended an input point as is, a point interpolated with an elevation and a
\* point interpolated without one.
C21_Witness ==
    /\ pc = "resampled" /\ i >= 1
    /\ \E k \in 1..Len(pts) : pts[k].id > 0 /\ k > 1
    /\ \E k \in 1..Len(pts) :
          pts[k].id = 0 /\ ~IsNone(pts[k].ele) /\ Val(pts[k].lat) \notin {0, 12}
    /\ \E k \in 1..Len(pts) : pts[k].id = 0 /\ IsNone(pts[k].ele)

\* ------------------------- the re-timer beside the synthetic generator
\* regenerate_timestamps_with_speed and add_synthetic_timestamps applied to
\* the same single-segment track, at the same speed and start instant
EquivMaxLen == 3

EquivSegments == {sg \in SeqsUpTo(RtPoints, EquivMaxLen) : Len(sg) >= 2}
EquivFiles == {[wellformed |-> TRUE, tracks |-> <<<<sg>>>>] : sg \in EquivSegments}
\* target speeds in tenths of a metre per second, the clock
EquivArgs == {[target_speed_ms |-> v, now |-> 0] : v \in {30, 56, 139}}

InitEquiv ==
    /\ pc = "eq_regenerate"
    /\ gpx \in EquivFiles
    /\ args \in EquivArgs
    /\ pts = <<>> /\ err = NoError
    /\ t = 0 /\ i = 0 /\ res = <<>>
    /\ InitAux

\* the re-timer on the file
RegenerateOnFile ==
    /\ pc = "eq_regenerate"
    /\ out' = <<regenerate_timestamps_with_speed(gpx.tracks, <<args.target_speed_ms, 10>>,
                                                 args.now)>>
    /\ log' = Append(log, IF DividesByZero(gpx.tracks) THEN "regenerate failed"
                          ELSE "regenerate")
    /\ pc' = "eq_synthetic"
    /\ UNCHANGED <<gpx, args, pts, err, t, i, res, argv, stat>>

\* the synthetic generator on the same geometry, speed and start
SyntheticOnFile ==
    /\ pc = "eq_synthetic"
    /\ LET r == add_synthetic_timestamps(Flatten(gpx.tracks), args.target_speed_ms,
                                         Some(args.now), args.now)
       IN  pts' = r.pts /\ err' = r.err
    /\ pc' = "eq_done"
    /\ UNCHANGED <<gpx, args, t, i, res, aux>>

NextEquiv == RegenerateOnFile \/ SyntheticOnFile

SpecEquiv == InitEquiv /\ [][NextEquiv]_vars

TimesOf(points) == [k \in 1..Len(points) |-> points[k].time]

\* C22 (as claimed): for the same single-segment track of 2 or more points,
\* the same target speed and the same start instant, the timestamps
\* regenerate_timestamps_with_speed writes are those add_synthetic_timestamps
\* assigns, also when the track's path length is zero.
C22_RetimerIsSynthetic ==
    pc = "eq_done" => TimesOf(Concat(Concat(out[1]))) = TimesOf(pts)

\* the two agree on every point up to half a tick per step whenever the
\* track has a positive path length
C22_AgreeWithinRounding ==
    (pc = "eq_done" /\ ~DividesByZero(gpx.tracks)) =>
        LET w == Concat(Concat(out[1]))
        IN  \A k \in 1..Len(w) : 2 * Abs(Val(w[k].time) - Val(pts[k].time)) <= k - 1

\* ------------------------------------------------ more claims on round_coords
\* y is x rounded to ndigits decimals: a multiple of the unit of that
\* precision, no more than half a unit from x
RoundedTo(y, x, ndigits) ==
    LET unit == Pow10(CoordDigits - ndigits)
    IN  y % unit = 0 /\ 2 * Abs(y - x) <= unit

\* C23: round_coords returns its input itself when precision is unset and
\* drop-elevation is false; otherwise it returns as many points in the same
\* order, each with its timestamp unchanged, its latitude and longitude
\* rounded to the precision (unchanged when precision is unset), and its
\* elevation absent when drop-elevation is true, unchanged when it is false.
C23_RoundFrame ==
    pc = "rounded" =>
        IF IsNone(args.precision) /\ ~args.drop_ele THEN pts = gpx
        ELSE /\ Len(pts) = Len(gpx)
             /\ \A k \in 1..Len(pts) :
                   /\ pts[k].time = gpx[k].time
                   /\ IF IsNone(args.precision)
                      THEN pts[k].lat = gpx[k].lat /\ pts[k].lon = gpx[k].lon
                      ELSE /\ RoundedTo(Val(pts[k].lat), Val(gpx[k].lat), Val(args.precision))
                           /\ RoundedTo(Val(pts[k].lon), Val(gpx[k].lon), Val(args.precision))
                   /\ IF args.drop_ele THEN IsNone(pts[k].ele) ELSE pts[k].ele = gpx[k].ele

\* C23 witness: two points with different times, one of them with an
\* elevation, were rounded at a precision that changed a coordinate, the
\* elevations being kept.
C23_Witness ==
    /\ pc = "rounded" /\ ~IsNone(args.precision) /\ ~args.drop_ele
    /\ Len(gpx) = 2 /\ gpx[1].time # gpx[2].time
    /\ \E k \in 1..2 : ~IsNone(pts[k].ele) /\ pts[k].lat # gpx[k].lat

\* the other branches of C23: only the elevation dropped, and the fast path
C23_DropOnly ==
    /\ pc = "rounded" /\ IsNone(args.precision) /\ args.drop_ele
    /\ \E k \in 1..Len(gpx) : ~IsNone(gpx[k].ele) /\ IsNone(pts[k].ele)

\* -------------------------------------------- termination of resample_uniform
\* every interval --interval accepts (type=float): negative, zero, positive;
\* in seconds as <<num, den>>
AnyIntervals == {<<n, TicksPerSec>> : n \in (-1)..MaxIntervalNum}

\* stat is the number of loop iterations made, modulo 2
InitResampleAny ==
    /\ pc = "resample"
    /\ gpx \in ResampleTracks
    /\ args \in {[interval |-> iv] : iv \in AnyIntervals}
    /\ pts = <<>>
    /\ err = NoError
    /\ t = 0 /\ i = 0 /\ res = <<>>
    /\ argv = <<>> /\ out = <<>> /\ log = <<>> /\ stat = 0

\* one iteration of the outer loop, whatever the step: of the result list the
\* first MaxOut points are kept, and a clock before the first timestamp is
\* kept as the instant one tick before it (every such instant selects the
\* first point and passes the loop test alike)
ResampleIterate ==
    /\ pc = "loop"
    /\ LoopTest(t, End(gpx))
    /\ LET j == Cursor(gpx, i, t)
           next == t + timedelta(args.interval[1], args.interval[2])
           first == Val(gpx[1].time)
       IN  /\ i' = j
           /\ res' = IF Len(res) < MaxOut THEN Append(res, Use(gpx, j, t)) ELSE res
           /\ t' = IF next < first THEN first - 1 ELSE next
    /\ stat' = 1 - stat
    /\ UNCHANGED <<pc, gpx, args, pts, err, argv, out, log>>

NextResampleAny == ResampleStart \/ ResampleIterate \/ ResampleReturn

\* the function runs in one thread that is never suspended for good: a loop
\* iteration or return that is possible is eventually taken
SpecResampleFair ==
    InitResampleAny /\ [][NextResampleAny]_vars /\ WF_vars(NextResampleAny)

\* C24 (as claimed): resample_uniform terminates for every finite track and
\* every interval the command line accepts, zero and negative ones included.
C24_ResampleTerminates == <>(pc = "resampled")

\* in every iteration for a positive interval the clock moves forward
C24_ClockAdvances ==
    [][(pc = "loop" /\ stat' # stat /\ args.interval[1] > 0) => t' > t]_vars

\* an iteration for an interval of zero or less leaves the clock at or
\* before the last timestamp, so the loop test holds again
C24_LoopTestHoldsAgain ==
    [][(pc = "loop" /\ stat' # stat /\ args.interval[1] <= 0) =>
          (t' <= t /\ LoopTest(t', End(gpx)))]_vars

\* ------------------------------------------------ more claims on process_file
\* C25: whenever process_file succeeds at an interval > 0, every point of the
\* written track has a timestamp and the timestamps are strictly increasing
\* in document order, with resampling enabled or disabled.
C25_WrittenStrictlyTimed ==
    (pc = "written" /\ Val(args.interval) > 0) =>
        LET w == out[1][1][1]
        IN  /\ \A k \in 1..Len(w) : ~IsNone(w[k].time)
            /\ StrictlyTimed(w)

\* C25 witness: a file of recorded times, two of them equal, was cleaned and
\* resampled into two or more points, an interpolated one among them, and
\* written.
C25_Witness ==
    /\ pc = "written" /\ ~args.no_resample /\ Val(args.interval) > 0
    /\ LET all == Flatten(gpx.tracks)
       IN  \E a, b \in 1..Len(all) :
              a # b /\ ~IsNone(all[a].time) /\ all[a].time = all[b].time
    /\ Len(out[1][1][1]) >= 2
    /\ \E k \in 1..Len(pts) : pts[k].id = 0 /\ Val(pts[k].time) \notin {0, 4}

\* the same with resampling disabled: two or more cleaned points written
C25_WithoutResample ==
    /\ pc = "written" /\ args.no_resample
    /\ Len(out[1][1][1]) >= 2

\* ------------------------------------------------ more claims on clean_points
\* the points clean_points sorts: the collected points with the times they
\* have at that moment, read or generated
SortInput ==
    LET col == Collected(gpx, args.add_timestamps)
        speed == IF IsNone(args.avg_speed) \/ args.avg_speed = Some(0)
                 THEN DefaultAvgSpeed ELSE Val(args.avg_speed)
    IN  IF Generates(col, HasTimestamps(gpx), args.add_timestamps)
        THEN add_synthetic_timestamps(gpx, speed, Some(args.now), args.now).pts
        ELSE col
\* a comes before b in the order by timestamp, ties in document order
Before(a, b) ==
    \/ Val(a.time) < Val(b.time)
    \/ a.time = b.time /\ a.id < b.id

\* C26: whenever clean_points returns, its output is non-empty, each output
\* point is an input point with its coordinates and elevation as in the
\* document, no point occurs twice, the points are in the order of the input
\* sorted by timestamp (ties in document order), and the first output point
\* is the earliest-timestamped input point.
C26_SortedSubsequence ==
    Cleaned =>
        LET ps == SortInput
        IN  /\ Len(pts) >= 1
            /\ \A m \in 1..Len(pts) :
                  /\ \E k \in 1..Len(ps) : pts[m] = ps[k]
                  /\ pts[m].id \in 1..Len(gpx)
                  /\ pts[m].lat = gpx[pts[m].id].lat
                  /\ pts[m].lon = gpx[pts[m].id].lon
                  /\ pts[m].ele = gpx[pts[m].id].ele
                  /\ ~IsNone(gpx[pts[m].id].time) => pts[m].time = gpx[pts[m].id].time
            /\ \A m, n \in 1..Len(pts) : m # n => pts[m].id # pts[n].id
            /\ \A m \in AdjacentPairs(pts) : Before(pts[m], pts[m + 1])
            /\ \A k \in 1..Len(ps) : ~Before(ps[k], pts[1])

\* C26 witness: two or more points are returned for an input of recorded
\* times in which the earliest time occurs twice and not at the start of the
\* document, and a point was left out.
C26_Witness ==
    /\ Cleaned /\ Len(pts) >= 2 /\ HasTimestamps(gpx)
    /\ Len(pts) < Len(SortInput)
    /\ pts[1].id > 1 /\ HasCoords(gpx[1]) /\ ~IsNone(gpx[1].time)
    /\ \E k \in 1..Len(gpx) :
          k > pts[1].id /\ HasCoords(gpx[k]) /\ gpx[k].time = pts[1].time

\* -------------------------------------- more claims on the duration re-timer
\* the re-timer assigned times: the file written holds a segment of 2 or
\* more points and its path length is positive
TimesAssigned ==
    /\ Retimed
    /\ RealizedLength > 0
    /\ log[Len(log)] \in {"regenerate", "custom"}

\* C27 (as claimed): the timestamps the re-timer writes are non-decreasing in
\* document order over all points of the file, across segment and track
\* boundaries too, and the last point's time is start + total length / target
\* speed.
C27_NonDecreasing ==
    TimesAssigned =>
        LET w == WrittenPoints
            v == Val(stat.target_speed_ms)
        IN  /\ \A k \in 1..(Len(w) - 1) :
                  /\ ~IsNone(w[k].time) /\ ~IsNone(w[k + 1].time)
                  /\ Val(w[k].time) <= Val(w[k + 1].time)
            /\ w[Len(w)].time = Some(args.now + timedelta(RealizedLength * v[2], v[1]))

\* the part of C27 that holds: the last point of the file is stamped with
\* start + total length / target speed
C27_LastTime ==
    TimesAssigned =>
        LET w == WrittenPoints
            v == Val(stat.target_speed_ms)
        IN  w[Len(w)].time = Some(args.now + timedelta(RealizedLength * v[2], v[1]))

\* the failing case: the custom fix wrote two segments, the second starting
\* before the first ends
C27_SecondSegmentRestarts ==
    /\ Retimed /\ log[Len(log)] = "custom"
    /\ Len(out[1]) = 1 /\ Len(out[1][1]) = 2
    /\ LET s1 == out[1][1][1]
           s2 == out[1][1][2]
       IN  Val(s2[1].time) < Val(s1[Len(s1)].time)

\* ---------------------------------------------- failures of process_file
\* the input makes a stage fail: the file does not parse, or clean_points
\* finds no point it can use, or cannot sort timed with untimed points
StageMustFail ==
    \/ ~gpx.wellformed
    \/ LET all == Flatten(gpx.tracks)
       IN  \/ Len(CoordPoints(all)) = 0
           \/ ~HasTimestamps(all) /\ ~Val(args.add_timestamps)
           \/ Mixed(all) /\ Val(args.add_timestamps)

\* C28: when a stage of process_file fails (parsing, cleaning or a later
\* stage) nothing is written: the output file is written in one step only,
\* after every stage has succeeded, and the input file is never written.
C28_NoOutputOnFailure ==
    /\ [](StageMustFail => (out = <<>> /\ pc # "written"))
    /\ [](pc = "raised" => (err # NoError /\ out = <<>>))
    /\ [][/\ gpx' = gpx
          /\ out' # out => (pc = "pf_write" /\ pc' = "written" /\ err = NoError)]_vars

\* C28 witness: process_file raised in the cleaning stage, after parsing a
\* file that holds points with coordinates, and wrote nothing.
C28_Witness ==
    /\ pc = "raised" /\ err = NoTimestampedPoints /\ out = <<>>
    /\ gpx.wellformed /\ Len(CoordPoints(Flatten(gpx.tracks))) >= 2

\* the other failures: the parse error and the sort error
C28_ParseOrSortFailure ==
    /\ pc = "raised" /\ out = <<>>
    /\ err \in {ParseError, SortTypeError}

\* C29 (as claimed): fix_file_with_speed returns True only when the output
\* file exists and every point in it carries a timestamp the re-timer
\* assigned (none before the re-timer's start instant, the first point at the
\* start instant); a run of gpx_fix.py that left nothing to re-time, or a
\* failed regeneration, is reported as a failure.
C29_SuccessMeansRetimed ==
    (pc = "rt_done" /\ res = Some(TRUE)) =>
        /\ Len(out) = 1
        /\ LET w == WrittenPoints
           IN  /\ Len(w) >= 1
               /\ \A k \in 1..Len(w) : ~IsNone(w[k].time) /\ Val(w[k].time) >= args.now
               /\ w[1].time = Some(args.now)

\* the failing case: gpx_fix.py succeeded with a single point, the re-timer
\* passed over it, and True was returned with the point's old timestamp
C29_SinglePointNotRetimed ==
    /\ pc = "rt_done" /\ res = Some(TRUE)
    /\ log = <<"gpx_fix", "regenerate">>
    /\ Len(WrittenPoints) = 1
    /\ WrittenPoints[1].time # Some(args.now)

\* on the same path, a file of 2 or more points is re-timed from the start
\* instant on
C29_RetimedWhenTwoPoints ==
    (pc = "rt_done" /\ log = <<"gpx_fix", "regenerate">> /\ Len(WrittenPoints) >= 2) =>
        /\ WrittenPoints[1].time = Some(args.now)
        /\ \A k \in 1..Len(WrittenPoints) :
              ~IsNone(WrittenPoints[k].time) /\ Val(WrittenPoints[k].time) >= args.now

\* ------------------------------------------------- fix_all_files (two workers)
\* fix_all_files starts a worker thread on every invocation; two invocations
\* are modelled.  The variables hold: gpx the route files (name -> content),
\* pc the position of each worker, pts the directory broken/ and res the
\* directory fixed/ (absent, or the set of the names in it), out the names in
\* the lockito directory, stat the locals of each worker.  Files keep their
\* names on the way (no Lockito names are set).
FixMaxFiles == 2

Workers == {1, 2}

\* route files: one that gpx_fix.py cannot parse, one it fixes
FixContents ==
    {[wellformed |-> FALSE, tracks |-> <<>>],
     [wellformed |-> TRUE,
      tracks |-> <<<<<<Point(0, Some(0), Some(0), None, None),
                       Point(0, Some(10), Some(0), None, None)>>>>>>]}

\* the command line fix_all_files_thread builds, the timestamp box ticked
FixAllCommand ==
    [profile |-> "car", interval |-> Some(15), max_speed |-> None, min_distance |-> None,
     simplify |-> Some(2), precision |-> Some(7), drop_ele |-> None,
     strip_extensions |-> None, no_metadata |-> None, add_timestamps |-> Some(TRUE),
     zip |-> None, avg_speed |-> None, no_resample |-> FALSE, input |-> None]

\* whether process_file succeeds on a route file
Fixes(content) == process_file(content, apply_profile(FixAllCommand)).err = NoError

RECURSIVE sorted(_)
\* sorted(gpx_files): the names of a directory listing in ascending order
sorted(names) ==
    IF names = {} THEN <<>>
    ELSE LET m == CHOOSE x \in names : \A y \in names : x <= y
         IN  <<m>> \o sorted(names \ {m})

NoLocals == [todo |-> <<>>, success_count |-> 0, moved |-> {}, report |-> "none"]

InitFixAll ==
    /\ gpx \in UNION {[1..n -> FixContents] : n \in 1..FixMaxFiles}
    /\ pc = [w \in Workers |-> "idle"]
    /\ pts = None /\ res = None /\ out = {}
    /\ stat = [w \in Workers |-> NoLocals]
    /\ args = FixAllCommand /\ argv = <<>>
    /\ err = NoError /\ log = <<>>
    /\ t = 0 /\ i = 0

\* fix_all_files: the button pressed, a worker thread started
FixAllFiles(w) ==
    /\ pc[w] = "idle"
    /\ pc' = [pc EXCEPT ![w] = "copy"]
    /\ UNCHANGED <<gpx, args, pts, err, t, i, res, aux>>

\* the worker creates broken/ and copies every route file into it
CopyToBroken(w) ==
    /\ pc[w] = "copy"
    /\ pts' = Some((IF IsNone(pts) THEN {} ELSE Val(pts)) \cup DOMAIN gpx)
    /\ pc' = [pc EXCEPT ![w] = "gpx_fix"]
    /\ UNCHANGED <<gpx, args, err, t, i, res, aux>>

\* gpx_fix.py starts in batch mode: exit 2 without broken/, else fixed/ is
\* created and broken/ listed; exit 0 when the listing is empty
GpxFixStart(w) ==
    /\ pc[w] = "gpx_fix"
    /\ IF IsNone(pts)
       THEN /\ pc' = [pc EXCEPT ![w] = "done"]
            /\ stat' = [stat EXCEPT ![w].report = "error"]
            /\ UNCHANGED res
       ELSE /\ res' = IF IsNone(res) THEN Some({}) ELSE res
            /\ stat' = [stat EXCEPT ![w].todo = sorted(Val(pts))]
            /\ pc' = [pc EXCEPT ![w] = IF Val(pts) = {} THEN "returned" ELSE "gpx_files"]
    /\ UNCHANGED <<gpx, args, pts, err, t, i, argv, out, log>>

\* one iteration of the batch loop of gpx_fix.py: the file is read from
\* broken/ and, when every stage succeeds, written to fixed/; a file or a
\* directory that is gone counts as an error and the loop goes on
GpxFixFile(w) ==
    /\ pc[w] = "gpx_files"
    /\ LET f == Head(stat[w].todo)
           readable == ~IsNone(pts) /\ f \in Val(pts)
           written == readable /\ Fixes(gpx[f]) /\ ~IsNone(res)
           rest == Tail(stat[w].todo)
       IN  /\ res' = IF written THEN Some(Val(res) \cup {f}) ELSE res
           /\ stat' = [stat EXCEPT ![w].todo = rest,
                                   ![w].success_count = @ + (IF written THEN 1 ELSE 0)]
           /\ pc' = [pc EXCEPT ![w] = IF rest = <<>> THEN "returned" ELSE "gpx_files"]
    /\ UNCHANGED <<gpx, args, pts, err, t, i, argv, out, log>>

\* returncode 0: every file found in fixed/ is moved to the lockito directory
MoveFixed(w) ==
    /\ pc[w] = "returned"
    /\ IF IsNone(res)
       THEN /\ pc' = [pc EXCEPT ![w] = "done"]
            /\ stat' = [stat EXCEPT ![w].report = "success"]
            /\ UNCHANGED <<res, out>>
       ELSE /\ out' = out \cup Val(res)
            /\ stat' = [stat EXCEPT ![w].moved = Val(res)]
            /\ res' = Some({})
            /\ pc' = [pc EXCEPT ![w] = "cleanup"]
    /\ UNCHANGED <<gpx, args, pts, err, t, i, argv, log>>

\* fixed/ and broken/ are removed and success is reported
CleanUp(w) ==
    /\ pc[w] = "cleanup"
    /\ res' = None
    /\ pts' = None
    /\ pc' = [pc EXCEPT ![w] = "done"]
    /\ stat' = [stat EXCEPT ![w].report = "success"]
    /\ UNCHANGED <<gpx, args, err, t, i, argv, out, log>>

NextFixAll ==
    \E w \in Workers :
        \/ FixAllFiles(w)
        \/ CopyToBroken(w)
        \/ GpxFixStart(w)
        \/ GpxFixFile(w)
        \/ MoveFixed(w)
        \/ CleanUp(w)

SpecFixAll == InitFixAll /\ [][NextFixAll]_vars

\* a worker's gpx_fix.py run is reading broken/ and writing fixed/
Running(w) == pc[w] = "gpx_files"
\* a worker moves or deletes files of the staging directories in this step
Removes(w) == pc[w] \in {"returned", "cleanup"} /\ pc'[w] # pc[w] /\ <<pts, res>>' # <<pts, res>>

\* C30 (as claimed): no worker moves or deletes files of broken/ and fixed/
\* while another worker's gpx_fix.py run is reading or writing them, and
\* every worker that reports success has moved a fixed file for each of its
\* inputs into the lockito directory.
C30_WorkersDoNotInterfere ==
    /\ [][\A w \in Workers : Removes(w) => \A u \in Workers \ {w} : ~Running(u)]_vars
    /\ [](\A w \in Workers :
             stat[w].report = "success" => \A f \in DOMAIN gpx : f \in stat[w].moved)

\* the failing case: every route file can be fixed, and a worker reports
\* success without having moved a file for each of them
C30_SuccessWithoutFile ==
    /\ \A f \in DOMAIN gpx : Fixes(gpx[f])
    /\ \E w \in Workers :
          stat[w].report = "success" /\ \E f \in DOMAIN gpx : f \notin stat[w].moved

\* a single worker that is never disturbed moves every file it could fix
C30_UndisturbedWorker ==
    \A w \in Workers :
        (stat[w].report = "success" /\ \A u \in Workers \ {w} : pc[u] = "idle") =>
            \A f \in DOMAIN gpx : Fixes(gpx[f]) => f \in stat[w].moved /\ f \in out

====
